---- MODULE Spec2Model ----
(***************************************************************************)
(* A model of src/src/Signal/Group/sender-key-record.ts:                   *)
(*   - SenderKeyRecord, the ring of sender-key states of one group sender, *)
(*   - the closure state of makeMessagesSocket: the media connection       *)
(*     lease, the device resolver and its cache, the session asserter and  *)
(*     its verified set, and relayMessage with its dispatches.             *)
(* Each component has its own specification over the shared variables; the *)
(* variables of the other components keep their initial value.             *)
(***************************************************************************)
EXTENDS Integers, Sequences, FiniteSets, TLC

(***************************************************************************)
(* Bounds of the model and constants of the program.                       *)
(***************************************************************************)
MAX_STATES == 5

MaxAdds == 7

MaxStored == 6

MEDIA_CONN_CHECK_INTERVAL == 60000

MaxFetches == 3

MaxTicks == 3

MaxJid == 2

MaxAssertCalls == 1

MaxUser == 2

MaxJidList == 2

MaxUSyncCalls == 1

DEFAULT_PARTICIPANT_BLOCK_SIZE == 200

MaxBlockSize == 1

MaxRelays == 2

MaxBatch == 2

MaxKeys == 3

MaxCallers == 2

MaxSends == 2

MediaTypeCacheLimit == 1

MaxGroups == 2

MaxKeyNames == 1

MaxKeyStates == 3

MaxStatesOption == 2

MaxCleanups == 2

MaxOtherEvents == 2

MaxSplitLen == 5

MaxSplitSize == 3

MaxParticipants == 2

\* The size over which the hourly timer clears the verified set (1000 in
\* the program), scaled to the number of jids of the model.
VerifiedCacheLimit == 1

\* An optional value is a sequence of length 0 (absent) or 1 (present).
None == <<>>

Some(x) == <<x>>

RECURSIVE SeqSum(_)
SeqSum(s) == IF s = <<>> THEN 0 ELSE Head(s) + SeqSum(Tail(s))

Range(s) == {s[i] : i \in 1..Len(s)}

SetMax(S) == CHOOSE x \in S : \A y \in S : y <= x

SetMin(S) == CHOOSE x \in S : \A y \in S : x <= y

(***************************************************************************)
(* SenderKeyRecord                                                         *)
(***************************************************************************)
VARIABLES
  senderKeyStates,   \* SenderKeyRecord.senderKeyStates
  recOp,             \* the last operation called on the record
  recResult,         \* what that operation returned
  added              \* history: the states added so far, oldest first

recVars == <<senderKeyStates, recOp, recResult, added>>

(***************************************************************************)
(* makeMessagesSocket: the media connection lease                          *)
(***************************************************************************)
VARIABLES
  mediaConn,             \* optional promise: the last fetch started
  lastMediaConnRefresh,  \* the call time of the last fetch that succeeded
  pendingMediaQueries,   \* optional promise under the key 'mediaConn'
  now,                   \* Date.now()
  fetches,               \* the promises made so far; a promise is an index
  mcCall                 \* the last refreshMediaConn call and what it got

mediaVars == <<mediaConn, lastMediaConnRefresh, pendingMediaQueries, now,
               fetches, mcCall>>

(***************************************************************************)
(* makeMessagesSocket: the session asserter                                *)
(***************************************************************************)
VARIABLES
  verifiedSessionsCache,  \* the set of jids whose session was verified
  sessions,               \* the jids with a session in the key store
  asserts,                \* the assertSessions calls, by call slot; jids
                          \* is the list a call works on: the filtered
                          \* jids, then jidsRequiringFetch
  assertedSinceClear      \* history: jids of the unforced calls that
                          \* completed with no clearing since they began

sessVars == <<verifiedSessionsCache, sessions, asserts, assertedSinceClear>>

(***************************************************************************)
(* makeMessagesSocket: the device resolver                                 *)
(***************************************************************************)
VARIABLES
  userDevicesCache,  \* user -> optional list of [user, device]
  serverDevices,     \* user -> the devices the server lists for the user
  usync,             \* the getUSyncDevices calls, by call slot
  queriedUsers       \* history: the users a USync query has answered for,
                     \* their time to live not yet over

devVars == <<userDevicesCache, serverDevices, usync, queriedUsers>>

(***************************************************************************)
(* makeMessagesSocket: relayMessage                                        *)
(***************************************************************************)
VARIABLES
  senderKeyMemory,       \* the key store's sender-key-memory of the group:
                         \* the device jids recorded (none when absent)
  configBlockSize,       \* config.participantBlockSize (0 when not given)
  relay,                 \* the relayMessage call in progress
  skdmDelivered,         \* history: devices sent the SKDM by a relay to the
                         \* group that completed without error
  skdmDispatched,        \* history: devices sent the SKDM by any relay
  relays                 \* history: the number of relays made

relayVars == <<senderKeyMemory, configBlockSize, relay, skdmDelivered,
               skdmDispatched, relays>>

(***************************************************************************)
(* makeMessagesSocket: updateMediaMessage                                  *)
(***************************************************************************)
VARIABLES
  mediaMessage,      \* the media content of the message: directPath and url
  retry              \* the updateMediaMessage call

retryVars == <<mediaMessage, retry>>

(***************************************************************************)
(* cleanupSenderKeys, clearGroupSenderKeyMemory, clearGroupSenderKey       *)
(***************************************************************************)
VARIABLES
  memoryStore,       \* the sender-key-memory category: group -> entry
  senderKeyStore,    \* the sender-key category: key name -> entry
  janitor,           \* the cleanup or clear call in progress
  cleanups           \* history: the store as left by each aggressive
                     \* cleanup that met no failure, one after the other

janitorVars == <<memoryStore, senderKeyStore, janitor, cleanups>>

(***************************************************************************)
(* SenderKeyRecord: serialize, then deserialize                            *)
(***************************************************************************)
VARIABLES
  reloaded           \* the record made from the serialized form of another,
                     \* with the states that one had (optional)

tripVars == <<reloaded>>

(***************************************************************************)
(* makeMessagesSocket: sendReceipt, sendReceipts                           *)
(***************************************************************************)
VARIABLES
  receipts,          \* the sendReceipt or sendReceipts call
  receiptNodes       \* the stanzas the call has handed to sendNode, each
                     \* with the arguments of its sendReceipt

receiptVars == <<receipts, receiptNodes>>

(***************************************************************************)
(* makeMessagesSocket: relayMessage calls to one group, side by side       *)
(***************************************************************************)
VARIABLES
  calls,             \* the relayMessage calls, each at its own step
  txOwner            \* the call inside the key-store transaction, or 0

callVars == <<calls, txOwner>>

(***************************************************************************)
(* makeMessagesSocket: the media type of a relayed message                 *)
(***************************************************************************)
VARIABLES
  mediaTypeCache,    \* sorted field names of a message -> media type
  stamped,           \* the last message relayed and the mediatype put in
                     \* extraAttrs for it (optional)
  sends              \* history: the number of messages relayed

typeVars == <<mediaTypeCache, stamped, sends>>

\* The operations other than the relay.
auxVars ==
  <<retryVars, janitorVars, tripVars, receiptVars, callVars, typeVars>>

vars == <<recVars, mediaVars, sessVars, devVars, relayVars, auxVars>>

\* The structure a SenderKeyState wraps (SenderKeyStateStructure).  chain is
\* an optional [iteration, seed]; pub is a byte sequence, priv an optional one.
SenderKeyStateStructure(id, chain, pub, priv, msgKeys) ==
  [senderKeyId |-> id, senderChainKey |-> chain,
   senderSigningKey |-> [public |-> pub, private |-> priv],
   senderMessageKeys |-> msgKeys]

\* new SenderKeyState(id, iteration, chainKey, keyPair, public): a fresh
\* state with no message keys; the key pair, when given, supplies both keys.
NewSenderKeyState(id, iteration, chainKey, keyPair, signatureKey) ==
  SenderKeyStateStructure(
    id, Some([iteration |-> iteration, seed |-> chainKey]),
    IF keyPair = None THEN signatureKey ELSE keyPair[1].public,
    IF keyPair = None THEN None ELSE Some(keyPair[1].private),
    <<>>)

\* state is an optional structure
isValidSenderKeyState(state) ==
  /\ state # None
  /\ state[1].senderKeyId > 0
  /\ state[1].senderChainKey # None
  /\ state[1].senderChainKey[1].iteration >= 0
  /\ Len(state[1].senderSigningKey.public) # 0

\* The arguments addSenderKeyState is called with: <<id, iteration,
\* chainKey, signatureKey>>.  One well-formed state, and one for each check
\* of the validity predicate an added state can fail.
AddArgs ==
  { <<1, 0, <<11>>, <<21>>>>,
    <<0, 0, <<12>>, <<22>>>>,
    <<1, -1, <<13>>, <<23>>>>,
    <<2, 0, <<14>>, <<>>>> }

\* The arguments setSenderKeyState is called with: <<id, iteration,
\* chainKey, keyPair>>.
SetArgs ==
  { <<2, 0, <<15>>, [public |-> <<25>>, private |-> <<35>>]>> }

\* A stored structure whose chain key is missing: only a stored array can
\* hold one.
NoChainStructure == SenderKeyStateStructure(1, None, <<26>>, None, <<>>)

\* The structures a stored array is made of.
StoredStructures ==
  {NewSenderKeyState(a[1], a[2], a[3], None, a[4]) : a \in AddArgs}
    \cup {NewSenderKeyState(a[1], a[2], a[3], Some(a[4]), <<>>) : a \in SetArgs}
    \cup {NoChainStructure}

RECURSIVE SeqsUpTo(_, _)
SeqsUpTo(S, n) ==
  IF n = 0 THEN {<<>>}
  ELSE LET shorter == SeqsUpTo(S, n - 1)
       IN shorter \cup {Append(q, x) : q \in {r \in shorter : Len(r) = n - 1}, x \in S}

StoredArrays == SeqsUpTo(StoredStructures, MaxStored)

KeyIds == {a[1] : a \in AddArgs} \cup {a[1] : a \in SetArgs}

\* (mutant) an add that never evicts
addSenderKeyStateNoShift(id, iteration, chainKey, signatureKey) ==
  senderKeyStates' =
    Append(senderKeyStates,
           NewSenderKeyState(id, iteration, chainKey, None, signatureKey))

\* push, then shift when the ring is over MAX_STATES
addSenderKeyState(id, iteration, chainKey, signatureKey) ==
  LET pushed == Append(senderKeyStates,
                  NewSenderKeyState(id, iteration, chainKey, None, signatureKey))
  IN senderKeyStates' =
       IF Len(pushed) > MAX_STATES THEN Tail(pushed) ELSE pushed

AddSenderKeyState ==
  \E a \in AddArgs :
    /\ Len(added) < MaxAdds
    /\ addSenderKeyState(a[1], a[2], a[3], a[4])
    /\ added' = Append(added, NewSenderKeyState(a[1], a[2], a[3], None, a[4]))
    /\ recOp' = "add"
    /\ recResult' = None

\* The newest valid state at index i or below, scanning toward the head.
RECURSIVE ScanBackward(_, _)
ScanBackward(states, i) ==
  IF i = 0 THEN None
  ELSE IF isValidSenderKeyState(Some(states[i])) THEN Some(states[i])
  ELSE ScanBackward(states, i - 1)

\* Array.find: the first element whose key id is keyId
RECURSIVE FindByKeyId(_, _, _)
FindByKeyId(states, keyId, i) ==
  IF i > Len(states) THEN None
  ELSE IF Some(states[i].senderKeyId) = keyId THEN Some(states[i])
  ELSE FindByKeyId(states, keyId, i + 1)

\* (mutant) a lookup that returns the tail without validating it
getSenderKeyStateTailOnly(keyId) ==
  IF keyId = None /\ Len(senderKeyStates) # 0
  THEN LET recentState == senderKeyStates[Len(senderKeyStates)]
       IN [result |-> Some(recentState), states |-> senderKeyStates]
  ELSE LET state == FindByKeyId(senderKeyStates, keyId, 1)
       IN [result |-> IF isValidSenderKeyState(state) THEN state ELSE None,
           states |-> senderKeyStates]

\* (mutant) a lookup by key id that returns the match without validating it
getSenderKeyStateUnvalidated(keyId) ==
  IF keyId = None /\ Len(senderKeyStates) # 0
  THEN LET recentState == senderKeyStates[Len(senderKeyStates)]
           found == ScanBackward(senderKeyStates, Len(senderKeyStates))
       IN IF isValidSenderKeyState(Some(recentState))
          THEN [result |-> Some(recentState), states |-> senderKeyStates]
          ELSE IF found # None
          THEN [result |-> found, states |-> senderKeyStates]
          ELSE [result |-> None, states |-> <<>>]
  ELSE [result |-> FindByKeyId(senderKeyStates, keyId, 1),
        states |-> senderKeyStates]

\* getSenderKeyState(keyId?): what it returns and what it leaves in the
\* record.  keyId is optional.
getSenderKeyState(keyId) ==
  IF keyId = None /\ Len(senderKeyStates) # 0
  THEN LET recentState == senderKeyStates[Len(senderKeyStates)]
           found == ScanBackward(senderKeyStates, Len(senderKeyStates))
       IN IF isValidSenderKeyState(Some(recentState))
          THEN [result |-> Some(recentState), states |-> senderKeyStates]
          ELSE IF found # None
          THEN [result |-> found, states |-> senderKeyStates]
          ELSE [result |-> None, states |-> <<>>]
  ELSE LET state == FindByKeyId(senderKeyStates, keyId, 1)
       IN [result |-> IF isValidSenderKeyState(state) THEN state ELSE None,
           states |-> senderKeyStates]

GetSenderKeyState ==
  /\ senderKeyStates' = getSenderKeyState(None).states
  /\ recResult' = getSenderKeyState(None).result
  /\ recOp' = "get"
  /\ UNCHANGED added

GetSenderKeyStateById ==
  \E k \in KeyIds :
    /\ senderKeyStates' = getSenderKeyState(Some(k)).states
    /\ recResult' = getSenderKeyState(Some(k)).result
    /\ recOp' = "getById"
    /\ UNCHANGED added

\* clear the ring, then push the one state
setSenderKeyState(id, iteration, chainKey, keyPair) ==
  senderKeyStates' = <<NewSenderKeyState(id, iteration, chainKey, Some(keyPair), <<>>)>>

SetSenderKeyState ==
  \E a \in SetArgs :
    /\ setSenderKeyState(a[1], a[2], a[3], a[4])
    /\ recOp' = "set"
    /\ recResult' = None
    /\ UNCHANGED added

\* (mutant) a constructor that puts each structure at the head
SenderKeyRecordUnshift(serialized) ==
  [i \in 1..Len(serialized) |-> serialized[Len(serialized) + 1 - i]]

\* new SenderKeyRecord(serialized): one state per structure, in order
SenderKeyRecord(serialized) ==
  [i \in 1..Len(serialized) |-> serialized[i]]

\* deserialize(data) of an already parsed array
deserialize(data) == SenderKeyRecord(data)

\* state.getStructure(): the structure the state wraps
getStructure(state) == state

\* serialize(): the structures of the states, in order
serialize(states) == [i \in 1..Len(states) |-> getStructure(states[i])]

InitTrip == reloaded = None

\* SenderKeyRecord.deserialize(record.serialize())
RoundTrip ==
  /\ reloaded = None
  /\ reloaded' = Some([of |-> senderKeyStates,
                       states |-> deserialize(serialize(senderKeyStates))])
  /\ UNCHANGED recVars

\* The record followed is built by deserialize instead of empty.
Deserialize ==
  /\ recOp = "none"
  /\ \E data \in StoredArrays :
    /\ senderKeyStates' = deserialize(data)
    /\ recOp' = "deserialize"
    /\ recResult' = None
    /\ UNCHANGED added

\* An add on a record whose history is not followed.
AddToRecord ==
  \E a \in AddArgs :
    /\ addSenderKeyState(a[1], a[2], a[3], a[4])
    /\ recOp' = "add"
    /\ recResult' = None
    /\ UNCHANGED added

(***************************************************************************)
(* refreshMediaConn                                                        *)
(***************************************************************************)
\* Date.now() when the socket is made, and the step of the clock.
StartTime == MEDIA_CONN_CHECK_INTERVAL + 40000

TickMs == MEDIA_CONN_CHECK_INTERVAL \div 2

\* The ttl attribute of a media_conn answer, in seconds.
Ttls == {20, 300}

InitMedia ==
  /\ mediaConn = None
  /\ lastMediaConnRefresh = 0
  /\ pendingMediaQueries = None
  /\ now = StartTime
  /\ fetches = <<>>
  /\ mcCall = None

\* (mutant) a refresh that does not look for a query in flight
refreshMediaConnNoCoalesce(forceGet) ==
  IF mediaConn = None \/ forceGet
       \/ now - lastMediaConnRefresh > MEDIA_CONN_CHECK_INTERVAL
  THEN [start |-> TRUE, ret |-> Len(fetches) + 1]
  ELSE [start |-> FALSE, ret |-> mediaConn[1]]

\* (mutant) a refresh that takes the age limit from the ttl of the lease
refreshMediaConnByTtl(forceGet) ==
  IF pendingMediaQueries # None
  THEN [start |-> FALSE, ret |-> pendingMediaQueries[1]]
  ELSE IF mediaConn = None \/ forceGet
            \/ now - lastMediaConnRefresh > fetches[mediaConn[1]].ttl * 1000
  THEN [start |-> TRUE, ret |-> Len(fetches) + 1]
  ELSE [start |-> FALSE, ret |-> mediaConn[1]]

\* refreshMediaConn(forceGet): whether it starts a query, and the promise
\* it returns.
refreshMediaConn(forceGet) ==
  IF pendingMediaQueries # None
  THEN [start |-> FALSE, ret |-> pendingMediaQueries[1]]
  ELSE IF mediaConn = None \/ forceGet
            \/ now - lastMediaConnRefresh > MEDIA_CONN_CHECK_INTERVAL
  THEN [start |-> TRUE, ret |-> Len(fetches) + 1]
  ELSE [start |-> FALSE, ret |-> mediaConn[1]]

\* One call: up to the return of the promise.  A started query is sent
\* before the call returns; its promise settles in a later step.  A promise
\* records the Date.now() of the call that made it (now) and, once
\* fulfilled, the fetchDate of its node; the last call records the
\* mediaConn and the promises it found.
RefreshMediaConn ==
  \E forceGet \in BOOLEAN :
    LET r == refreshMediaConn(forceGet)
    IN /\ r.start => Len(fetches) < MaxFetches
       /\ IF r.start
          THEN /\ fetches' = Append(fetches, [status |-> "pending", now |-> now, ttl |-> 0,
                                          fetchDate |-> 0])
               /\ pendingMediaQueries' = Some(r.ret)
               /\ mediaConn' = Some(r.ret)
          ELSE UNCHANGED <<fetches, pendingMediaQueries, mediaConn>>
       /\ mcCall' = Some([forceGet |-> forceGet, started |-> r.start, ret |-> r.ret,
                          joined |-> pendingMediaQueries, at |-> now,
                          current |-> mediaConn, before |-> fetches])
       /\ UNCHANGED <<lastMediaConnRefresh, now>>

\* (mutant) the entry of the map outlives the query
ClearPendingSkipped == UNCHANGED pendingMediaQueries

\* The finally block: the entry of the map is deleted.
ClearPending == pendingMediaQueries' = None

\* The answer to a query holds a media_conn node: the promise is fulfilled.
MediaConnFetched ==
  \E f \in 1..Len(fetches), ttl \in Ttls :
    /\ fetches[f].status = "pending"
    /\ fetches' = [fetches EXCEPT ![f].status = "fulfilled", ![f].ttl = ttl,
                                  ![f].fetchDate = now]
    /\ lastMediaConnRefresh' = fetches[f].now
    /\ ClearPending
    /\ UNCHANGED <<mediaConn, now, mcCall>>

\* The query fails or its answer holds no media_conn node: the promise is
\* rejected.
MediaConnFailed ==
  \E f \in 1..Len(fetches) :
    /\ fetches[f].status = "pending"
    /\ fetches' = [fetches EXCEPT ![f].status = "rejected"]
    /\ ClearPending
    /\ UNCHANGED <<mediaConn, lastMediaConnRefresh, now, mcCall>>

Tick ==
  /\ now < StartTime + MaxTicks * TickMs
  /\ now' = now + TickMs
  /\ UNCHANGED <<mediaConn, lastMediaConnRefresh, pendingMediaQueries, fetches, mcCall>>

InitRecord ==
  /\ senderKeyStates = <<>>
  /\ recOp = "none"
  /\ recResult = None
  /\ added = <<>>

(***************************************************************************)
(* assertSessions                                                          *)
(***************************************************************************)
Jids == 1..MaxJid

AssertSlots == 1..MaxAssertCalls

IdleCall ==
  [pc |-> "idle", args |-> {}, force |-> FALSE, jids |-> {},
   result |-> FALSE, cleared |-> FALSE, covered |-> FALSE]

\* The socket is made with nothing verified; the store may hold sessions.
InitSessions ==
  /\ verifiedSessionsCache = {}
  /\ sessions = {}
  /\ asserts = [p \in AssertSlots |-> IdleCall]
  /\ assertedSinceClear = {}

InitSessionsAnyStore ==
  /\ verifiedSessionsCache = {}
  /\ sessions \in SUBSET Jids
  /\ asserts = [p \in AssertSlots |-> IdleCall]
  /\ assertedSinceClear = {}

\* (mutant) no jid is taken for verified
NotVerifiedNoFilter(jids) == jids

\* jids.filter(jid => !verifiedSessionsCache.has(jid))
NotVerified(jids) == jids \ verifiedSessionsCache

\* What a call that completes without error adds to the history.
Completed(c) ==
  IF c.force \/ c.cleared THEN assertedSinceClear
  ELSE assertedSinceClear \cup c.args

\* The call up to its first await: the early returns, the filter on the
\* verified set, and, when forced, the prekey query.  jids is the list
\* without its duplicates.
AssertSessionsCall(p) ==
  \E jids \in SUBSET Jids, force \in BOOLEAN :
    LET c == [IdleCall EXCEPT !.args = jids, !.force = force,
                !.covered = ~force /\ jids # {} /\ jids \subseteq assertedSinceClear]
        done == [c EXCEPT !.pc = "done", !.result = FALSE]
    IN /\ asserts[p].pc = "idle"
       /\ IF jids = {}
          THEN /\ asserts' = [asserts EXCEPT ![p] = done]
               /\ assertedSinceClear' = Completed(done)
          ELSE IF force
          THEN /\ asserts' = [asserts EXCEPT ![p] = [c EXCEPT !.pc = "query", !.jids = jids]]
               /\ UNCHANGED assertedSinceClear
          ELSE IF NotVerified(jids) = {}
          THEN /\ asserts' = [asserts EXCEPT ![p] = done]
               /\ assertedSinceClear' = Completed(done)
          ELSE /\ asserts' = [asserts EXCEPT ![p] = [c EXCEPT !.pc = "read", !.jids = NotVerified(jids)]]
               /\ UNCHANGED assertedSinceClear
       /\ UNCHANGED <<verifiedSessionsCache, sessions>>

\* authState.keys.get('session', addrs) has answered: the jids with a
\* session join the verified set, the others are fetched.
AssertSessionsRead(p) ==
  LET c == asserts[p]
      jidsRequiringFetch == c.jids \ sessions
      done == [c EXCEPT !.pc = "done", !.result = FALSE, !.jids = {}]
  IN /\ c.pc = "read"
     /\ verifiedSessionsCache' = verifiedSessionsCache \cup (c.jids \cap sessions)
     /\ IF jidsRequiringFetch # {}
        THEN /\ asserts' = [asserts EXCEPT ![p] = [c EXCEPT !.pc = "query", !.jids = jidsRequiringFetch]]
             /\ UNCHANGED assertedSinceClear
        ELSE /\ asserts' = [asserts EXCEPT ![p] = done]
             /\ assertedSinceClear' = Completed(done)
     /\ UNCHANGED sessions

\* parseAndInjectE2ESessions: a session is installed for each bundle of the
\* answer, one per jid asked for.
parseAndInjectE2ESessions(fetched) == sessions \cup fetched

\* The prekey query has answered: the sessions are injected and the fetched
\* jids join the verified set.
AssertSessionsFetched(p) ==
  LET c == asserts[p]
      done == [c EXCEPT !.pc = "done", !.result = TRUE, !.jids = {}]
  IN /\ c.pc = "query"
     /\ sessions' = parseAndInjectE2ESessions(c.jids)
     /\ verifiedSessionsCache' = verifiedSessionsCache \cup c.jids
     /\ asserts' = [asserts EXCEPT ![p] = done]
     /\ assertedSinceClear' = Completed(done)

\* The store read or the prekey query fails: the call throws.
AssertSessionsFailed(p) ==
  /\ asserts[p].pc \in {"read", "query"}
  /\ asserts' = [asserts EXCEPT ![p].pc = "failed", ![p].jids = {}]
  /\ UNCHANGED <<verifiedSessionsCache, sessions, assertedSinceClear>>

\* The caller takes the result; the slot is free for another call.
AssertSessionsReturn(p) ==
  /\ asserts[p].pc \in {"done", "failed"}
  /\ asserts' = [asserts EXCEPT ![p] = IdleCall]
  /\ UNCHANGED <<verifiedSessionsCache, sessions, assertedSinceClear>>

\* The hourly timer: the verified set is cleared when over its limit.
ClearVerifiedSessions ==
  /\ Cardinality(verifiedSessionsCache) > VerifiedCacheLimit
  /\ verifiedSessionsCache' = {}
  /\ assertedSinceClear' = {}
  /\ asserts' = [p \in AssertSlots |->
                   IF asserts[p].pc = "idle" THEN asserts[p]
                   ELSE [asserts[p] EXCEPT !.cleared = TRUE, !.covered = FALSE]]
  /\ UNCHANGED sessions

\* Another part of the program removes from the store the session of a jid
\* that is in the verified set.
RemoveSession ==
  \E j \in sessions \cap verifiedSessionsCache :
    /\ sessions' = sessions \ {j}
    /\ UNCHANGED <<verifiedSessionsCache, asserts, assertedSinceClear>>

(***************************************************************************)
(* getUSyncDevices                                                         *)
(***************************************************************************)
Users == 1..MaxUser

\* authState.creds.me.id: the local account is user 1, on its device 0.
MeUser == 1

\* A jid is [user, device]; user 0 stands for a jid jidDecode cannot read.
JidInputs ==
  [user : Users, device : {0, 1}] \cup {[user |-> 0, device |-> 0]}

JidLists == SeqsUpTo(JidInputs, MaxJidList)

USyncSlots == 1..MaxUSyncCalls

\* The device lists a user can have on the server.
DeviceLists == {<<>>, <<0>>, <<0, 1>>}

IdleUSync ==
  [pc |-> "idle", jids |-> <<>>, useCache |-> FALSE, ignoreZeroDevices |-> FALSE,
   deviceResults |-> <<>>, toFetch |-> <<>>, queries |-> <<>>]

InitDevices ==
  /\ userDevicesCache = [u \in Users |-> None]
  /\ serverDevices = [u \in Users |-> <<0>>]
  /\ usync = [p \in USyncSlots |-> IdleUSync]
  /\ queriedUsers = {}

\* The local account with two devices and every other user with one, or
\* the local account with one device and the other users with none.
InitDevicesForRelay ==
  /\ userDevicesCache = [u \in Users |-> None]
  /\ serverDevices \in
       {[u \in Users |-> IF u = MeUser THEN <<0, 1>> ELSE <<0>>],
        [u \in Users |-> IF u = MeUser THEN <<0>> ELSE <<>>]}
  /\ usync = [p \in USyncSlots |-> IdleUSync]
  /\ queriedUsers = {}

InitDevicesAnyServer ==
  /\ userDevicesCache = [u \in Users |-> None]
  /\ serverDevices \in [Users -> DeviceLists]
  /\ usync = [p \in USyncSlots |-> IdleUSync]
  /\ queriedUsers = {}

\* [...new Set(jids)]: the first occurrence of each element, in order
RECURSIVE Dedupe(_)
Dedupe(q) ==
  IF q = <<>> THEN <<>>
  ELSE LET front == Dedupe(SubSeq(q, 1, Len(q) - 1))
           last == q[Len(q)]
       IN IF last \in Range(front) THEN front ELSE Append(front, last)

RECURSIVE Concat(_)
Concat(qs) == IF qs = <<>> THEN <<>> ELSE Head(qs) \o Concat(Tail(qs))

\* (mutant) the loop over the jids with the cache never consulted
ScanJidsNoCache(jids, useCache) ==
  LET user(i) == jids[i].user
  IN [deviceResults |-> <<>>,
      toFetch |-> Concat([i \in 1..Len(jids) |->
                    IF user(i) = 0 THEN <<>> ELSE <<user(i)>>])]

\* The loop over the jids (with processUserFromCache, which does not
\* await): the cached devices of the hits and the normalized jids to fetch.
ScanJids(jids, useCache) ==
  LET user(i) == jids[i].user
      hit(i) == useCache /\ userDevicesCache[user(i)] # None
  IN [deviceResults |-> Concat([i \in 1..Len(jids) |->
                    IF user(i) = 0 THEN <<>>
                    ELSE IF hit(i) THEN userDevicesCache[user(i)][1] ELSE <<>>]),
      toFetch |-> Concat([i \in 1..Len(jids) |->
                    IF user(i) = 0 THEN <<>>
                    ELSE IF hit(i) THEN <<>> ELSE <<user(i)>>])]

\* The call up to its await of executeUSyncQuery, or to its return.
GetUSyncDevicesCall(p) ==
  \E jidList \in JidLists, useCache \in BOOLEAN, ignoreZeroDevices \in BOOLEAN :
    LET jids == Dedupe(jidList)
        scan == ScanJids(jids, useCache)
        c == [IdleUSync EXCEPT !.jids = jidList, !.useCache = useCache,
                !.ignoreZeroDevices = ignoreZeroDevices]
    IN /\ usync[p].pc = "idle"
       /\ usync' = [usync EXCEPT ![p] =
            IF Len(jidList) = 0 THEN [c EXCEPT !.pc = "done"]
            ELSE IF Len(scan.toFetch) = 0
            THEN [c EXCEPT !.pc = "done", !.deviceResults = scan.deviceResults]
            ELSE [c EXCEPT !.pc = "query", !.deviceResults = scan.deviceResults,
                    !.toFetch = scan.toFetch, !.queries = <<scan.toFetch>>]]
       /\ UNCHANGED <<userDevicesCache, serverDevices, queriedUsers>>

\* extractDeviceJids(result.list, meId, ignoreZeroDevices): the devices of
\* the answer, user by user; the primary device of the local account is
\* left out when ignoreZeroDevices is set.
extractDeviceJids(users, ignoreZeroDevices) ==
  LET keep(u, d) == ~(ignoreZeroDevices /\ u = MeUser /\ d = 0)
      ofUser(u) == SelectSeq([i \in 1..Len(serverDevices[u]) |->
                                [user |-> u, device |-> serverDevices[u][i]]],
                             LAMBDA it : keep(it.user, it.device))
  IN Concat([i \in 1..Len(users) |-> ofUser(users[i])])

\* The cache after the extracted devices are grouped by user (deviceMap)
\* and each group is set under its user.
CacheWith(extracted) ==
  LET deviceMap(u) == SelectSeq(extracted, LAMBDA it : it.user = u)
  IN [u \in Users |->
       IF deviceMap(u) # <<>> THEN Some(deviceMap(u)) ELSE userDevicesCache[u]]

\* The query has answered: the extracted devices are added to the result
\* and written to the cache user by user.
USyncAnswered(p) ==
  LET c == usync[p]
      extracted == extractDeviceJids(Dedupe(c.toFetch), c.ignoreZeroDevices)
  IN /\ c.pc = "query"
     /\ usync' = [usync EXCEPT ![p] =
          [c EXCEPT !.pc = "done", !.deviceResults = c.deviceResults \o extracted]]
     /\ userDevicesCache' = CacheWith(extracted)
     /\ queriedUsers' = queriedUsers \cup Range(c.toFetch)
     /\ UNCHANGED serverDevices

\* executeUSyncQuery gives no result: only the cached devices are returned.
USyncNoResult(p) ==
  /\ usync[p].pc = "query"
  /\ usync' = [usync EXCEPT ![p].pc = "done"]
  /\ UNCHANGED <<userDevicesCache, serverDevices, queriedUsers>>

\* executeUSyncQuery fails: the call throws.
USyncFailed(p) ==
  /\ usync[p].pc = "query"
  /\ usync' = [usync EXCEPT ![p].pc = "failed"]
  /\ UNCHANGED <<userDevicesCache, serverDevices, queriedUsers>>

USyncReturn(p) ==
  /\ usync[p].pc \in {"done", "failed"}
  /\ usync' = [usync EXCEPT ![p] = IdleUSync]
  /\ UNCHANGED <<userDevicesCache, serverDevices, queriedUsers>>

\* The entry of a user outlives its time to live and is dropped.
CacheExpire ==
  \E u \in Users :
    /\ userDevicesCache[u] # None \/ u \in queriedUsers
    /\ userDevicesCache' = [userDevicesCache EXCEPT ![u] = None]
    /\ queriedUsers' = queriedUsers \ {u}
    /\ UNCHANGED <<serverDevices, usync>>

(***************************************************************************)
(* relayMessage and its sendToParticipants.  The calls of one relay to     *)
(* getUSyncDevices and assertSessions are taken whole, each in the step    *)
(* that awaits it; the key store is the transactional store of the auth    *)
(* state: the set calls of a transaction body are held back and written    *)
(* together when the body returns, and dropped when it throws.             *)
(***************************************************************************)
Dests == {"user", "group", "status"}

DeviceJids == [user : Users, device : {0, 1}]

\* jidEncode(user, server, device) of a user jid, which has no device
UserJid(u) == [user |-> u, device |-> 0]

\* The participants of the group metadata, or the statusJidList.
ParticipantLists == SeqsUpTo({UserJid(u) : u \in Users}, MaxParticipants)

\* config.participantBlockSize || DEFAULT_PARTICIPANT_BLOCK_SIZE
participantBlockSize ==
  IF configBlockSize = 0 THEN DEFAULT_PARTICIPANT_BLOCK_SIZE ELSE configBlockSize

\* One sendToParticipants call; with the block split, one block.
Block(users, pc) ==
  [pc |-> pc, users |-> users, devices |-> <<>>, sk |-> {},
   tx |-> FALSE, txMap |-> {}, txSet |-> None, stanza |-> None]

IdleRelay ==
  [pc |-> "idle", dest |-> "user", override |-> FALSE, peer |-> FALSE,
   useCache |-> TRUE, to |-> MeUser, list |-> <<>>, split |-> FALSE,
   senderKeyMap |-> {}, shouldIncludeDeviceIdentity |-> FALSE,
   blocks |-> <<>>, events |-> <<>>, memBefore |-> {}]

\* The store has no sender-key memory for the group yet.
InitRelay ==
  /\ senderKeyMemory = {}
  /\ configBlockSize = 0
  /\ relay = IdleRelay
  /\ skdmDelivered = {}
  /\ skdmDispatched = {}
  /\ relays = 0

InitRelayAnyConfig ==
  /\ senderKeyMemory = {}
  /\ configBlockSize \in 0..MaxBlockSize
  /\ relay = IdleRelay
  /\ skdmDelivered = {}
  /\ skdmDispatched = {}
  /\ relays = 0

\* What a relay leaves alone of the session and device parts.
relayLeaves ==
  <<asserts, assertedSinceClear, serverDevices, usync, queriedUsers>>

isGroupOrStatus(c) == c.dest # "user"

\* A key-store write or a stanza of the call, in the order they are issued.
Event(kind, tx, b) == [kind |-> kind, tx |-> tx, blk |-> b]

\* (mutant) a dispatch without devices goes on to its transaction
BeginDispatchAlways(blk, devices, sk, grp) ==
  [blk EXCEPT !.devices = devices, !.sk = sk, !.tx = TRUE,
              !.pc = IF grp THEN "read" ELSE "assert"]

\* sendToParticipants up to its first await: nothing is done without
\* devices; otherwise the transaction is opened.
BeginDispatch(blk, devices, sk, grp) ==
  [blk EXCEPT !.devices = devices, !.sk = sk, !.tx = (devices # <<>>),
              !.pc = IF devices = <<>> THEN "empty"
                     ELSE IF grp THEN "read" ELSE "assert"]

\* return await sendToParticipants(devices, senderKeyJids)
SingleDispatch(c, devices, sk) ==
  [c EXCEPT !.pc = "dispatch",
            !.blocks = <<BeginDispatch(Block(<<>>, "new"), devices, sk,
                                       isGroupOrStatus(c))>>]

Min(a, b) == IF a < b THEN a ELSE b

\* (mutant) the last block is left out when it is not a full one
participantBlocksFullOnly(list, size) ==
  [i \in 1..(Len(list) \div size) |->
     SubSeq(list, (i - 1) * size + 1, i * size)]

\* participantsList.slice(i, i + participantBlockSize), block by block
participantBlocks(list, size) ==
  [i \in 1..((Len(list) + size - 1) \div size) |->
     SubSeq(list, (i - 1) * size + 1, Min(i * size, Len(list)))]

\* Promise.all(participantBlocks.map(...)): every block starts by awaiting
\* getUSyncDevices.
StartBlocks(c) ==
  LET pb == participantBlocks(c.list, participantBlockSize)
  IN [c EXCEPT !.pc = "dispatch", !.split = TRUE,
               !.blocks = [i \in 1..Len(pb) |-> Block(pb[i], "resolve")]]

\* The participants are known: over the block size the list is split and
\* the sender-key memory read once (not for a status), otherwise the
\* devices of the whole list are resolved.
AfterParticipants(c, list) ==
  LET cc == [c EXCEPT !.list = list]
  IN IF Len(list) > participantBlockSize
     THEN IF c.dest = "status" THEN StartBlocks(cc)
          ELSE [cc EXCEPT !.pc = "splitRead", !.split = TRUE]
     ELSE [cc EXCEPT !.pc = "devices"]

\* relayMessage up to its first await, the statusJidList taken from lists.
RelayMessageWith(lists) ==
  \E dest \in Dests, participant \in {None} \cup {Some(d) : d \in DeviceJids},
     peer \in BOOLEAN, useCache \in BOOLEAN, to \in Users,
     statusJidList \in lists :
    LET c == [IdleRelay EXCEPT !.dest = dest, !.override = participant # None,
                !.peer = peer, !.useCache = useCache, !.to = to,
                !.memBefore = senderKeyMemory]
    IN /\ relay.pc = "idle"
       /\ relays < MaxRelays
       /\ relays' = relays + 1
       /\ dest # "user" => to = MeUser /\ ~peer
       /\ (dest # "status" \/ participant # None) => statusJidList = <<>>
       /\ (participant # None \/ peer) => useCache
       /\ relay' =
            IF participant # None
            THEN SingleDispatch(c, <<participant[1]>>, {})
            ELSE IF dest = "group" THEN [c EXCEPT !.pc = "meta"]
            ELSE IF dest = "status" THEN AfterParticipants(c, statusJidList)
            ELSE IF peer
            THEN SingleDispatch(c,
                   <<UserJid(to)>> \o
                   (IF to # MeUser THEN <<UserJid(MeUser)>> ELSE <<>>), {})
            ELSE [c EXCEPT !.pc = "devices"]
       /\ UNCHANGED <<senderKeyMemory, configBlockSize, skdmDelivered,
                      skdmDispatched, sessVars, devVars>>

RelayMessage == RelayMessageWith(ParticipantLists)

\* The group metadata has answered with its participants, taken from
\* lists; when reading it fails the error is caught and the list stays
\* empty.
RelayGroupMetadataWith(lists) ==
  \E list \in lists :
    /\ relay.pc = "meta"
    /\ relay' = AfterParticipants(relay, list)
    /\ UNCHANGED <<senderKeyMemory, configBlockSize, skdmDelivered,
                   skdmDispatched, relays, sessVars, devVars>>

RelayGroupMetadata == RelayGroupMetadataWith(ParticipantLists)

\* Block split: authState.keys.get('sender-key-memory') has answered.
RelaySplitRead ==
  /\ relay.pc = "splitRead"
  /\ relay' = StartBlocks([relay EXCEPT !.senderKeyMap = senderKeyMemory])
  /\ UNCHANGED <<senderKeyMemory, configBlockSize, skdmDelivered,
                 skdmDispatched, relays, sessVars, devVars>>

\* getUSyncDevices(jids, useCache, ignoreZeroDevices) taken whole: the
\* devices it returns and the cache it leaves.
ResolveDevices(jidList, useCache, ignoreZeroDevices) ==
  LET scan == ScanJids(Dedupe(jidList), useCache)
      extracted == extractDeviceJids(Dedupe(scan.toFetch), ignoreZeroDevices)
  IN IF Len(jidList) = 0
     THEN [devices |-> <<>>, cache |-> userDevicesCache]
     ELSE [devices |-> scan.deviceResults \o extracted,
           cache |-> CacheWith(extracted)]

\* The devices of the recipients are resolved.  A user relay sends to the
\* user, to the local account, and to the devices of both; a status relay
\* that is not split has no SKDM target; a group relay goes on to read
\* the sender-key memory.
RelayDevices ==
  LET c == relay
      jidList == IF c.dest = "user" THEN <<UserJid(MeUser), UserJid(c.to)>>
                 ELSE c.list
      res == ResolveDevices(jidList, c.useCache, c.dest = "user")
      base == <<UserJid(c.to)>> \o
              (IF c.to # MeUser THEN <<UserJid(MeUser)>> ELSE <<>>)
  IN /\ c.pc = "devices"
     /\ userDevicesCache' = res.cache
     /\ relay' =
          IF c.dest = "user" THEN SingleDispatch(c, base \o res.devices, {})
          ELSE IF c.dest = "status" THEN SingleDispatch(c, res.devices, {})
          ELSE [c EXCEPT !.pc = "memRead",
                         !.blocks = <<[Block(<<>>, "new") EXCEPT
                                         !.devices = res.devices]>>]
     /\ UNCHANGED <<senderKeyMemory, configBlockSize, skdmDelivered,
                    skdmDispatched, relays, sessVars, relayLeaves>>

\* getUSyncDevices throws before any dispatch: the relay fails.
RelayDevicesFailed ==
  /\ relay.pc = "devices"
  /\ relay.list # <<>> \/ relay.dest = "user"
  /\ relay' = [relay EXCEPT !.pc = "failed"]
  /\ UNCHANGED <<senderKeyMemory, configBlockSize, skdmDelivered,
                 skdmDispatched, relays, sessVars, devVars>>

\* (mutant) every device is taken for an SKDM target
NewSenderKeyJidsAll(devices, senderKeyMap) == Range(devices)

\* (mutant) every device is taken to hold the sender key already
NewSenderKeyJidsNone(devices, senderKeyMap) == {}

\* The devices not yet in senderKeyMap: the SKDM targets.
NewSenderKeyJids(devices, senderKeyMap) == Range(devices) \ senderKeyMap

\* Single dispatch to a group: the sender-key memory has been read; the
\* devices not in it are the SKDM targets and are marked in the map.
RelayMemRead ==
  LET c == relay
      devices == c.blocks[1].devices
      senderKeyJids == NewSenderKeyJids(devices, senderKeyMemory)
      cc == [c EXCEPT !.senderKeyMap = senderKeyMemory \cup senderKeyJids]
  IN /\ c.pc = "memRead"
     /\ relay' = IF senderKeyJids # {}
                 THEN [cc EXCEPT !.pc = "memWrite", !.blocks[1].sk = senderKeyJids]
                 ELSE SingleDispatch(cc, devices, {})
     /\ UNCHANGED <<senderKeyMemory, configBlockSize, skdmDelivered,
                    skdmDispatched, relays, sessVars, devVars>>

\* With SKDM targets the map is written to the store, before the
\* dispatch and outside its transaction.
RelayMemWrite ==
  LET c == relay
      cc == [c EXCEPT !.events = Append(@, Event("set", FALSE, 0))]
  IN /\ c.pc = "memWrite"
     /\ senderKeyMemory' = c.senderKeyMap
     /\ relay' = SingleDispatch(cc, c.blocks[1].devices, c.blocks[1].sk)
     /\ UNCHANGED <<configBlockSize, skdmDelivered, skdmDispatched,
                    relays, sessVars, devVars>>

BlockDone(blk) == blk.pc \in {"sent", "empty", "failed"}

\* A dispatch throws: the relay that awaits it fails.
FailBlock(c, b) ==
  [c EXCEPT !.blocks[b].pc = "failed",
            !.pc = IF @ = "dispatch" THEN "failed" ELSE @]

\* A block has its devices: those not in the shared map are its SKDM
\* targets and are marked; the block is dispatched.
BlockResolve(b) ==
  LET c == relay
      res == ResolveDevices(c.blocks[b].users, c.useCache, FALSE)
      blockSenderKeyJids == NewSenderKeyJids(res.devices, c.senderKeyMap)
  IN /\ b \in DOMAIN c.blocks
     /\ c.blocks[b].pc = "resolve"
     /\ userDevicesCache' = res.cache
     /\ relay' = [c EXCEPT
          !.senderKeyMap = @ \cup blockSenderKeyJids,
          !.blocks[b] = BeginDispatch(@, res.devices, blockSenderKeyJids, TRUE)]
     /\ UNCHANGED <<senderKeyMemory, configBlockSize, skdmDelivered,
                    skdmDispatched, relays, sessVars, relayLeaves>>

\* (mutant) the dispatch sets the map it read together with its own SKDM
\* targets
BuiltSettingTargets(c, b, pkmsg) ==
  LET flag == c.shouldIncludeDeviceIdentity \/ pkmsg
      grp == isGroupOrStatus(c)
      blk == c.blocks[b]
  IN [c EXCEPT
       !.shouldIncludeDeviceIdentity = flag,
       !.events = IF grp THEN Append(@, Event("set", TRUE, b)) ELSE @,
       !.blocks[b] = [blk EXCEPT
          !.pc = "send",
          !.txSet = IF grp THEN Some(blk.txMap \cup blk.sk) ELSE None,
          !.stanza = Some([skdm |-> IF grp THEN blk.sk ELSE {},
                           pkmsg |-> pkmsg, deviceIdentity |-> flag])]]

\* The stanza is assembled and handed to sendNode: in a group dispatch
\* the map read in the transaction is set back (held by the transaction);
\* the device identity goes with the flag of the whole relay.  pkmsg tells
\* whether a participant node of this stanza was encrypted as pkmsg.
Built(c, b, pkmsg) ==
  LET flag == c.shouldIncludeDeviceIdentity \/ pkmsg
      grp == isGroupOrStatus(c)
      blk == c.blocks[b]
  IN [c EXCEPT
       !.shouldIncludeDeviceIdentity = flag,
       !.events = IF grp THEN Append(@, Event("set", TRUE, b)) ELSE @,
       !.blocks[b] = [blk EXCEPT
          !.pc = "send",
          !.txSet = IF grp THEN Some(blk.txMap) ELSE None,
          !.stanza = Some([skdm |-> IF grp THEN blk.sk ELSE {},
                           pkmsg |-> pkmsg, deviceIdentity |-> flag])]]

\* Group or status dispatch: the metadata and the sender-key memory have
\* been read inside the transaction and the message is encrypted for the
\* group.  Without SKDM targets the stanza is built at once.
DispatchRead(b) ==
  LET c == relay
      cc == [c EXCEPT !.blocks[b].txMap =
               IF c.dest = "status" THEN {} ELSE senderKeyMemory]
  IN /\ b \in DOMAIN c.blocks
     /\ c.blocks[b].pc = "read"
     /\ relay' = IF c.blocks[b].sk # {}
                 THEN [cc EXCEPT !.blocks[b].pc = "assert"]
                 ELSE Built(cc, b, FALSE)
     /\ UNCHANGED <<senderKeyMemory, configBlockSize, skdmDelivered,
                    skdmDispatched, relays, sessVars, devVars>>

\* The jids whose sessions the dispatch asserts.
AssertedJids(c, b) ==
  IF isGroupOrStatus(c) THEN c.blocks[b].sk ELSE Range(c.blocks[b].devices)

\* assertSessions(jids, false) has returned and createParticipantNodes has
\* encrypted for each jid, with a pkmsg or not.
DispatchAssert(b) ==
  \E pkmsg \in BOOLEAN :
    LET c == relay
        work == NotVerified(AssertedJids(c, b))
        fetch == work \ sessions
        cc == [c EXCEPT !.events =
                 IF fetch # {} THEN Append(@, Event("session", TRUE, b)) ELSE @]
    IN /\ b \in DOMAIN c.blocks
       /\ c.blocks[b].pc = "assert"
       /\ sessions' = parseAndInjectE2ESessions(fetch)
       /\ verifiedSessionsCache' = verifiedSessionsCache \cup work
       /\ relay' = Built(cc, b, pkmsg)
       /\ UNCHANGED <<senderKeyMemory, configBlockSize, skdmDelivered,
                      skdmDispatched, relays, devVars, asserts, assertedSinceClear>>

\* The prekey query of assertSessions fails: the dispatch throws.
DispatchAssertFailed(b) ==
  LET c == relay
      work == NotVerified(AssertedJids(c, b))
  IN /\ b \in DOMAIN c.blocks
     /\ c.blocks[b].pc = "assert"
     /\ work \ sessions # {}
     /\ verifiedSessionsCache' = verifiedSessionsCache \cup (work \cap sessions)
     /\ relay' = FailBlock(c, b)
     /\ UNCHANGED <<senderKeyMemory, configBlockSize, skdmDelivered,
                    skdmDispatched, relays, devVars, sessions, asserts,
                    assertedSinceClear>>

\* sendNode has sent the stanza and the transaction body returns: what
\* the transaction holds is written to the store.  A status dispatch sets
\* the entry of the status jid, not the one of the group.
DispatchSent(b) ==
  LET c == relay
      blk == c.blocks[b]
  IN /\ b \in DOMAIN c.blocks
     /\ blk.pc = "send"
     /\ senderKeyMemory' = IF blk.txSet # None /\ c.dest = "group"
                          THEN blk.txSet[1] ELSE senderKeyMemory
     /\ relay' = [c EXCEPT !.blocks[b].pc = "sent",
                           !.events = Append(@, Event("stanza", TRUE, b))]
     /\ UNCHANGED <<configBlockSize, skdmDelivered, skdmDispatched,
                    relays, sessVars, devVars>>

\* The metadata read, the encryption or sendNode throws: the transaction
\* drops what it holds and the dispatch throws.
DispatchFailed(b) ==
  /\ b \in DOMAIN relay.blocks
  /\ relay.blocks[b].pc \in {"resolve", "read", "send"}
  /\ relay' = FailBlock(relay, b)
  /\ UNCHANGED <<senderKeyMemory, configBlockSize, skdmDelivered,
                 skdmDispatched, relays, sessVars, devVars>>

\* The SKDM targets of the stanzas the relay has emitted.
SkdmOf(c) ==
  UNION {c.blocks[b].stanza[1].skdm :
           b \in {i \in DOMAIN c.blocks : c.blocks[i].pc = "sent"}}

\* The relay returns its message id.
Returned(c) == [c EXCEPT !.pc = "ok"]

\* Every dispatch has returned.  After a block split of a group the map
\* is still to be written; otherwise the relay returns.
RelayJoin ==
  LET c == relay
      last == c.split /\ c.dest # "status"
  IN /\ c.pc = "dispatch"
     /\ \A b \in DOMAIN c.blocks : c.blocks[b].pc \in {"sent", "empty"}
     /\ relay' = IF last THEN [c EXCEPT !.pc = "finalWrite"] ELSE Returned(c)
     /\ UNCHANGED <<senderKeyMemory, configBlockSize, skdmDelivered,
                    skdmDispatched, relays, sessVars, devVars>>

\* Block split: the map marked by the blocks is written to the store,
\* after the blocks and outside their transactions.
RelayFinalWrite ==
  LET c == relay
  IN /\ c.pc = "finalWrite"
     /\ senderKeyMemory' = c.senderKeyMap
     /\ relay' = Returned([c EXCEPT !.events = Append(@, Event("set", FALSE, 0))])
     /\ UNCHANGED <<configBlockSize, skdmDelivered, skdmDispatched,
                    relays, sessVars, devVars>>

\* The caller has the result or the error, and no dispatch of the relay
\* is still running: another relay can be made.  The history takes the
\* SKDM targets of the stanzas the relay emitted to the group.
RelayReturn ==
  LET skdm == IF relay.dest = "group" THEN SkdmOf(relay) ELSE {}
  IN /\ relay.pc \in {"ok", "failed"}
     /\ \A b \in DOMAIN relay.blocks : BlockDone(relay.blocks[b])
     /\ relay' = IdleRelay
     /\ skdmDispatched' = skdmDispatched \cup skdm
     /\ skdmDelivered' = IF relay.pc = "ok" THEN skdmDelivered \cup skdm
                         ELSE skdmDelivered
     /\ UNCHANGED <<senderKeyMemory, configBlockSize, relays, sessVars, devVars>>

\* clearGroupSenderKeyMemory: the entry of the group is set to null.
clearGroupSenderKeyMemory ==
  /\ relay.pc = "idle"
  /\ senderKeyMemory # {}
  /\ senderKeyMemory' = {}
  /\ skdmDelivered' = {}
  /\ skdmDispatched' = {}
  /\ UNCHANGED <<configBlockSize, relay, relays, sessVars, devVars>>

(***************************************************************************)
(* updateMediaMessage.  waitForMsgMediaUpdate calls the handler on every   *)
(* messages.media-update event until the handler returns true or the wait  *)
(* times out.                                                              *)
(***************************************************************************)
\* key.id of the message of the call (0: a message without key.id) and of
\* the entries of the events
RetryKeyIds == {1, 2}

ResultTypes == {"SUCCESS", "NOT_FOUND", "GENERAL_ERROR"}

\* An entry of a media-update event: it carries an error, or a payload
\* that does not decrypt, or one that decrypts to a result and a path.
UpdateEntries ==
  [id : RetryKeyIds, kind : {"error", "garbled"} \cup (ResultTypes \ {"SUCCESS"}),
   path : {0}]
  \cup [id : RetryKeyIds, kind : {"SUCCESS"}, path : {1, 2}]

UpdateBatches == SeqsUpTo(UpdateEntries, MaxBatch) \ {<<>>}

\* getUrlFromDirectPath(directPath)
getUrlFromDirectPath(directPath) == 100 + directPath

\* An error: its message and the data it carries.
Err(message, data) == Some([message |-> message, data |-> data])

IdleRetry ==
  [pc |-> "idle", id |-> 0, sendNode |-> "none", waiting |-> FALSE,
   handled |-> FALSE, error |-> None, stanzas |-> 0, updates |-> 0,
   others |-> 0, arrived |-> None, before |-> None]

InitRetry ==
  /\ mediaMessage = [directPath |-> 0, url |-> getUrlFromDirectPath(0)]
  /\ retry = IdleRetry

\* The call up to Promise.all: a message without key.id throws; otherwise
\* the request is handed to sendNode and the wait is started.
UpdateMediaMessage ==
  \E id \in {0} \cup RetryKeyIds :
    LET c == [IdleRetry EXCEPT !.id = id, !.before = Some(mediaMessage)]
    IN /\ retry.pc = "idle"
       /\ retry' = IF id = 0
                   THEN [c EXCEPT !.pc = "failed", !.error = Err("Message ID is required", "")]
                   ELSE [c EXCEPT !.pc = "waiting", !.sendNode = "pending",
                                  !.waiting = TRUE]
       /\ UNCHANGED mediaMessage

\* Promise.all has resolved: the recorded error is thrown, or
\* messages.update is emitted and the message returned.
AfterAll(c) ==
  IF c.error # None THEN [c EXCEPT !.pc = "failed"]
  ELSE [c EXCEPT !.pc = "done", !.updates = @ + 1]

\* sendNode has sent the request.
RetrySent ==
  LET c == [retry EXCEPT !.sendNode = "sent", !.stanzas = @ + 1]
  IN /\ retry.sendNode = "pending"
     /\ retry' = IF c.handled THEN AfterAll(c) ELSE c
     /\ UNCHANGED mediaMessage

\* sendNode throws: Promise.all rejects with its error, the wait going on.
RetrySendFailed ==
  /\ retry.sendNode = "pending"
  /\ retry' = [retry EXCEPT !.sendNode = "failed", !.pc = "failed",
                            !.error = Err("sendNode", "")]
  /\ UNCHANGED mediaMessage

\* (mutant) the first entry of the event is taken, whatever its key id
FindUpdateAny(update, id) == Some(update[1])

\* update.find(c => c.key.id === message.key.id)
FindUpdate(update, id) ==
  LET at == {i \in 1..Len(update) : update[i].id = id}
  IN IF at = {} THEN None ELSE Some(update[SetMin(at)])

\* The error the handler records for an entry, if any.
HandlerError(entry) ==
  IF entry.kind = "error" THEN Err("result.error", "")
  ELSE IF entry.kind = "garbled" THEN Err("decryptMediaRetryData", "")
  ELSE IF entry.kind # "SUCCESS"
  THEN Err("Media re-upload failed by device", entry.kind)
  ELSE None

\* A messages.media-update event reaches the handler of the wait.  With no
\* entry for the key id the wait goes on; otherwise the entry is handled,
\* the content patched on success, and the wait is over.
MediaUpdateEvent ==
  \E update \in UpdateBatches :
    LET result == FindUpdate(update, retry.id)
        err == HandlerError(result[1])
        c == [retry EXCEPT !.waiting = FALSE, !.handled = TRUE,
                !.arrived = Some(update),
                !.error = IF err # None /\ retry.pc # "failed" THEN err ELSE @]
    IN /\ retry.waiting
       /\ IF result = None
          THEN /\ retry.others < MaxOtherEvents
               /\ retry' = [retry EXCEPT !.others = @ + 1]
               /\ UNCHANGED mediaMessage
          ELSE /\ mediaMessage' =
                    IF err = None
                    THEN [directPath |-> result[1].path,
                          url |-> getUrlFromDirectPath(result[1].path)]
                    ELSE mediaMessage
               /\ retry' = IF c.sendNode = "sent" THEN AfterAll(c) ELSE c

\* The wait times out before an entry for the key id has come.
RetryTimeout ==
  /\ retry.waiting
  /\ retry' = [retry EXCEPT !.waiting = FALSE,
                 !.pc = "failed",
                 !.error = IF retry.pc = "failed" THEN @ ELSE Err("timed out", "")]
  /\ UNCHANGED mediaMessage

\* The caller has the message or the error, and nothing of the call is
\* still pending: another call can be made.
RetryReturn ==
  /\ retry.pc \in {"done", "failed"}
  /\ ~retry.waiting
  /\ retry.sendNode # "pending"
  /\ retry' = IdleRetry
  /\ mediaMessage' = [directPath |-> 0, url |-> getUrlFromDirectPath(0)]

(***************************************************************************)
(* The janitor.  The key store is the store of the auth state: get with    *)
(* no key gives the whole category; set writes the keys of its patch, a    *)
(* null deleting the key, and leaves the other keys alone.                 *)
(***************************************************************************)
Groups == 1..MaxGroups

MemoryKeys == {1, 2}

\* An entry of sender-key-memory: absent, null, something that is not an
\* object, or an object whose keys map to true, to false, or are not there.
ObjectEntries ==
  [tag : {"object"}, map : [MemoryKeys -> {"none", "true", "false"}]]

NoMap == [k \in MemoryKeys |-> "none"]

MemoryEntries ==
  ObjectEntries \cup [tag : {"absent", "null", "junk"}, map : {NoMap}]

KeyNames == 1..MaxKeyNames

\* A state of a stored sender key, as the janitor sees it: n tells the
\* states apart, ok is the outcome of the janitor's test of the state.
JanitorStates == [n : 1..MaxKeyStates, ok : BOOLEAN]

JanitorArrays ==
  UNION {[1..len -> BOOLEAN] : len \in 0..MaxKeyStates}

\* An entry of sender-key: absent, falsy, text that does not parse, or a
\* string, a byte array or an object holding an array of states or
\* something that is not an array.
SenderKeyEntries ==
  [form : {"absent", "falsy", "garbled"}, isArray : {FALSE}, states : {<<>>}]
  \cup [form : {"string", "bytes", "object"}, isArray : {FALSE}, states : {<<>>}]
  \cup {[form |-> f, isArray |-> TRUE,
         states |-> [i \in DOMAIN a |-> [n |-> i, ok |-> a[i]]]] :
          f \in {"string", "bytes", "object"}, a \in JanitorArrays}

IdleJanitor ==
  [pc |-> "idle", op |-> "none", aggressive |-> FALSE, maxStatesPerGroup |-> 0,
   patch |-> None, failed |-> {}, keyPass |-> FALSE, memoryBefore |-> None,
   keysBefore |-> None]

InitJanitor ==
  /\ memoryStore = [g \in Groups |-> [tag |-> "absent", map |-> NoMap]]
  /\ senderKeyStore = [k \in KeyNames |-> [form |-> "absent", isArray |-> FALSE, states |-> <<>>]]
  /\ janitor = IdleJanitor
  /\ cleanups = <<>>

InitJanitorAnyStore ==
  /\ memoryStore \in [Groups -> MemoryEntries]
  /\ senderKeyStore \in [KeyNames -> SenderKeyEntries]
  /\ janitor = IdleJanitor
  /\ cleanups = <<>>

\* cleanupSenderKeys up to the read of cleanupSenderKeyMemory.
CleanupSenderKeys ==
  \E aggressive \in BOOLEAN, maxStatesPerGroup \in 1..MaxStatesOption :
    /\ janitor.pc = "idle"
    /\ Len(cleanups) < MaxCleanups
    /\ janitor' = [IdleJanitor EXCEPT !.pc = "memGet", !.op = "cleanup",
                     !.aggressive = aggressive,
                     !.maxStatesPerGroup = maxStatesPerGroup,
                     !.memoryBefore = Some(memoryStore),
                     !.keysBefore = Some(senderKeyStore)]
    /\ UNCHANGED <<memoryStore, senderKeyStore, cleanups>>

\* cleanupSenderKeyMemory has returned: the key pass is made when
\* aggressive.
AfterMemoryPass(c) ==
  IF c.aggressive THEN [c EXCEPT !.pc = "keyGet", !.patch = None, !.keyPass = TRUE]
  ELSE [c EXCEPT !.pc = "done", !.patch = None]

\* The cleaned entry of a group: the keys mapped to true.
validEntries(memory) ==
  [tag |-> "object",
   map |-> [k \in MemoryKeys |-> IF memory.map[k] = "true" THEN "true" ELSE "none"]]

\* The loop of cleanupSenderKeyMemory over the entries.
MemoryLoop(allMemory) ==
  LET isObject(g) == allMemory[g].tag = "object"
      hasValidEntries(g) == \E k \in MemoryKeys : allMemory[g].map[k] = "true"
      dropsKey(g) == \E k \in MemoryKeys : allMemory[g].map[k] = "false"
  IN [cleanedMemory |-> [g \in Groups |->
                           IF isObject(g) /\ hasValidEntries(g)
                           THEN Some(validEntries(allMemory[g])) ELSE None],
      hasChanges |-> \E g \in Groups :
                       \/ isObject(g) /\ (dropsKey(g) \/ ~hasValidEntries(g))
                       \/ allMemory[g].tag = "junk"]

\* authState.keys.get('sender-key-memory', []) has answered.
JanitorMemoryRead ==
  LET loop == MemoryLoop(memoryStore)
  IN /\ janitor.pc = "memGet"
     /\ janitor' = IF loop.hasChanges
                   THEN [janitor EXCEPT !.pc = "memSet", !.patch = Some(loop.cleanedMemory)]
                   ELSE AfterMemoryPass(janitor)
     /\ UNCHANGED <<memoryStore, senderKeyStore, cleanups>>

\* keys.set: the keys of the patch are written, the others left alone.
SetCategory(store, patch) ==
  [k \in DOMAIN store |-> IF patch[k] = None THEN store[k] ELSE patch[k][1]]

\* authState.keys.set({ 'sender-key-memory': cleanedMemory }) has returned.
JanitorMemoryWrite ==
  /\ janitor.pc = "memSet"
  /\ memoryStore' = SetCategory(memoryStore, janitor.patch[1])
  /\ janitor' = AfterMemoryPass(janitor)
  /\ UNCHANGED <<senderKeyStore, cleanups>>

\* (mutant) an error of the memory pass reaches cleanupSenderKeys
MemoryPassCaughtOutside(c) ==
  [c EXCEPT !.pc = "done", !.patch = None, !.failed = {"memory"}]

\* An error of the memory pass is caught in cleanupSenderKeyMemory.
MemoryPassCaught(c) == AfterMemoryPass([c EXCEPT !.failed = {"memory"}])

\* The read or the write of the memory pass throws.
JanitorMemoryFailed ==
  /\ janitor.pc \in {"memGet", "memSet"}
  /\ janitor' = MemoryPassCaught(janitor)
  /\ UNCHANGED <<memoryStore, senderKeyStore, cleanups>>

\* What the loop of cleanupCorruptedSenderKeys puts in keysToUpdate for an
\* entry: nothing, null, or the bytes of an array of states.
Null == [form |-> "absent", isArray |-> FALSE, states |-> <<>>]

Bytes(states) == [form |-> "bytes", isArray |-> TRUE, states |-> states]

Slice(parsed, count) ==
  IF Len(parsed) <= count THEN parsed
  ELSE SubSeq(parsed, Len(parsed) - count + 1, Len(parsed))

\* (mutant) the states are tested after the trim
KeyUpdateFilteringTrimmed(keyData, maxStatesPerGroup) ==
  IF keyData.form \in {"absent", "falsy"} THEN None
  ELSE IF keyData.form = "garbled" THEN Some(Null)
  ELSE IF ~keyData.isArray \/ Len(keyData.states) = 0 THEN Some(Null)
  ELSE LET parsed == keyData.states
           trimmed == Slice(parsed, maxStatesPerGroup)
           validStates == SelectSeq(trimmed, LAMBDA state : state.ok)
       IN IF Len(validStates) # Len(trimmed)
          THEN (IF Len(validStates) = 0 THEN Some(Null) ELSE Some(Bytes(validStates)))
          ELSE IF Len(parsed) > maxStatesPerGroup THEN Some(Bytes(trimmed))
          ELSE None

KeyUpdate(keyData, maxStatesPerGroup) ==
  IF keyData.form \in {"absent", "falsy"} THEN None
  ELSE IF keyData.form = "garbled" THEN Some(Null)
  ELSE IF ~keyData.isArray \/ Len(keyData.states) = 0 THEN Some(Null)
  ELSE LET parsed == keyData.states
           trimmed == Slice(parsed, maxStatesPerGroup)
           validStates == SelectSeq(parsed, LAMBDA state : state.ok)
       IN IF Len(validStates) # Len(parsed)
          THEN (IF Len(validStates) = 0 THEN Some(Null) ELSE Some(Bytes(validStates)))
          ELSE IF Len(parsed) > maxStatesPerGroup THEN Some(Bytes(trimmed))
          ELSE None

keysToUpdate(allSenderKeys, maxStatesPerGroup) ==
  [k \in DOMAIN allSenderKeys |-> KeyUpdate(allSenderKeys[k], maxStatesPerGroup)]

\* authState.keys.get('sender-key', []) has answered.
JanitorKeyRead ==
  LET patch == keysToUpdate(senderKeyStore, janitor.maxStatesPerGroup)
      hasChanges == \E k \in KeyNames : patch[k] # None
  IN /\ janitor.pc = "keyGet"
     /\ janitor' = IF hasChanges
                   THEN [janitor EXCEPT !.pc = "keySet", !.patch = Some(patch)]
                   ELSE [janitor EXCEPT !.pc = "done"]
     /\ UNCHANGED <<memoryStore, senderKeyStore, cleanups>>

\* authState.keys.set({ 'sender-key': keysToUpdate }) has returned.
JanitorKeyWrite ==
  /\ janitor.pc = "keySet"
  /\ senderKeyStore' = SetCategory(senderKeyStore, janitor.patch[1])
  /\ janitor' = [janitor EXCEPT !.pc = "done", !.patch = None]
  /\ UNCHANGED <<memoryStore, cleanups>>

\* The read or the write of the key pass throws: caught in
\* cleanupCorruptedSenderKeys.
JanitorKeyFailed ==
  /\ janitor.pc \in {"keyGet", "keySet"}
  /\ janitor' = [janitor EXCEPT !.pc = "done", !.patch = None,
                                !.failed = @ \cup {"key"}]
  /\ UNCHANGED <<memoryStore, senderKeyStore, cleanups>>

\* clearGroupSenderKeyMemory(authState, groupJid), as a call of its own.
ClearGroupSenderKeyMemory ==
  \E g \in Groups, fails \in BOOLEAN :
    /\ janitor.pc = "idle"
    /\ memoryStore' =
         IF fails THEN memoryStore
         ELSE [memoryStore EXCEPT ![g] = [tag |-> "absent", map |-> NoMap]]
    /\ janitor' = [IdleJanitor EXCEPT !.pc = "done", !.op = "clearMemory",
                     !.failed = IF fails THEN {"set"} ELSE {}]
    /\ UNCHANGED <<senderKeyStore, cleanups>>

\* clearGroupSenderKey(authState, groupJid, senderJid).
clearGroupSenderKey ==
  \E k \in KeyNames, fails \in BOOLEAN :
    /\ janitor.pc = "idle"
    /\ senderKeyStore' = IF fails THEN senderKeyStore
                         ELSE [senderKeyStore EXCEPT ![k] = Null]
    /\ janitor' = [IdleJanitor EXCEPT !.pc = "done", !.op = "clearKey",
                     !.failed = IF fails THEN {"set"} ELSE {}]
    /\ UNCHANGED <<memoryStore, cleanups>>

\* The call returns to its caller.
JanitorReturn ==
  /\ janitor.pc = "done"
  /\ janitor' = [IdleJanitor EXCEPT !.op = janitor.op]
  /\ cleanups' =
       IF janitor.op = "cleanup" /\ janitor.aggressive /\ janitor.failed = {}
       THEN Append(cleanups, [memory |-> memoryStore, keys |-> senderKeyStore,
                              maxStatesPerGroup |-> janitor.maxStatesPerGroup])
       ELSE <<>>
  /\ UNCHANGED <<memoryStore, senderKeyStore>>

(***************************************************************************)
(* Receipts.  A chat jid is a user (1) or a group (2); a participant is    *)
(* optional.  The message ids of a call are all different.                 *)
(***************************************************************************)
ChatJids == {1, 2}

ReceiptParticipants == {None, Some(3)}

ReceiptTypes == {None, Some("read"), Some("sender")}

isJidUser(jid) == jid = 1

\* The message keys of a call: the key at index i has the id FirstId + i.
FirstId == 10

KeyShapes ==
  [remoteJid : ChatJids, participant : ReceiptParticipants, fromMe : BOOLEAN]

KeyLists ==
  UNION {{[i \in 1..len |->
             [remoteJid |-> q[i].remoteJid, participant |-> q[i].participant,
              fromMe |-> q[i].fromMe, id |-> FirstId + i]] :
            q \in [1..len -> KeyShapes]} : len \in 0..MaxKeys}

MessageIdLists ==
  {[i \in 1..len |-> FirstId + i] : len \in 0..MaxKeys}

\* aggregateMessageKeysNotFromMe(keys): the keys not from me, by chat and
\* participant, in the order each pair first appears.
RECURSIVE aggregateMessageKeysNotFromMe(_)
aggregateMessageKeysNotFromMe(keys) ==
  IF Len(keys) = 0 THEN <<>>
  ELSE LET key == keys[Len(keys)]
           before == aggregateMessageKeysNotFromMe(SubSeq(keys, 1, Len(keys) - 1))
           same(i) == /\ before[i].jid = key.remoteJid
                      /\ before[i].participant = key.participant
       IN IF key.fromMe THEN before
          ELSE IF \E i \in DOMAIN before : same(i)
          THEN [i \in DOMAIN before |->
                  IF same(i)
                  THEN [before[i] EXCEPT !.messageIds = Append(@, key.id)]
                  ELSE before[i]]
          ELSE Append(before, [jid |-> key.remoteJid,
                               participant |-> key.participant,
                               messageIds |-> <<key.id>>])

\* (mutant) every id goes in the list
ReceiptNodeListingAll(jid, participant, messageIds, type) ==
  LET toUser == type = Some("sender") /\ isJidUser(jid)
  IN [id |-> messageIds[1],
      t |-> type = Some("read"),
      recipient |-> IF toUser THEN Some(jid) ELSE None,
      to |-> IF toUser THEN participant ELSE Some(jid),
      participant |-> IF toUser THEN None ELSE participant,
      type |-> type,
      content |-> IF Len(messageIds) > 1 THEN Some(messageIds) ELSE None]

\* The node sendReceipt builds for a list of ids that is not empty.
ReceiptNode(jid, participant, messageIds, type) ==
  LET toUser == type = Some("sender") /\ isJidUser(jid)
      remainingMessageIds == Tail(messageIds)
  IN [id |-> messageIds[1],
      t |-> type = Some("read"),
      recipient |-> IF toUser THEN Some(jid) ELSE None,
      to |-> IF toUser THEN participant ELSE Some(jid),
      participant |-> IF toUser THEN None ELSE participant,
      type |-> type,
      content |-> IF Len(messageIds) > 1 THEN Some(remainingMessageIds) ELSE None]

\* sendReceipt up to its sendNode: the nodes it hands over, none or one.
sendReceipt(jid, participant, messageIds, type) ==
  IF Len(messageIds) = 0 THEN <<>>
  ELSE <<[jid |-> jid, participant |-> participant, messageIds |-> messageIds,
          node |-> ReceiptNode(jid, participant, messageIds, type)]>>

IdleReceipts ==
  [pc |-> "idle", op |-> "none", keys |-> <<>>, messageIds |-> <<>>,
   error |-> None]

InitReceipts ==
  /\ receipts = IdleReceipts
  /\ receiptNodes = <<>>

RECURSIVE Flatten(_)
Flatten(seqs) ==
  IF Len(seqs) = 0 THEN <<>> ELSE Head(seqs) \o Flatten(Tail(seqs))

\* sendReceipts(keys, type) up to its Promise.all: every sendReceipt has run
\* to its sendNode.
SendReceipts ==
  \E keys \in KeyLists, type \in ReceiptTypes :
    LET recps == aggregateMessageKeysNotFromMe(keys)
    IN /\ receipts.pc = "idle"
       /\ receipts.op = "none"
       /\ receiptNodes' =
            IF Len(keys) = 0 THEN <<>>
            ELSE Flatten([i \in DOMAIN recps |->
                   sendReceipt(recps[i].jid, recps[i].participant,
                               recps[i].messageIds, type)])
       /\ receipts' = [IdleReceipts EXCEPT
                         !.pc = IF receiptNodes' = <<>> THEN "done" ELSE "sending",
                         !.op = "sendReceipts", !.keys = keys]

\* sendReceipt(jid, participant, messageIds, type) called by itself.
SendReceipt ==
  \E jid \in ChatJids, participant \in ReceiptParticipants,
     messageIds \in MessageIdLists, type \in ReceiptTypes :
    /\ receipts.pc = "idle"
    /\ receipts.op = "none"
    /\ receiptNodes' = sendReceipt(jid, participant, messageIds, type)
    /\ receipts' = [IdleReceipts EXCEPT
                      !.pc = IF receiptNodes' = <<>> THEN "done" ELSE "sending",
                      !.op = "sendReceipt", !.messageIds = messageIds]

\* Every sendNode has resolved.
ReceiptsSent ==
  /\ receipts.pc = "sending"
  /\ receipts' = [receipts EXCEPT !.pc = "done"]
  /\ UNCHANGED receiptNodes

\* A sendNode has rejected: the call rejects with its error.
ReceiptsFailed ==
  /\ receipts.pc = "sending"
  /\ receipts' = [receipts EXCEPT !.pc = "done", !.error = Some("transport")]
  /\ UNCHANGED receiptNodes

ReceiptsReturn ==
  /\ receipts.pc = "done"
  /\ receipts' = [receipts EXCEPT !.pc = "idle"]
  /\ UNCHANGED receiptNodes

(***************************************************************************)
(* relayMessage to one group from several callers at once, each in the     *)
(* branch without blocks.  Each call is followed from the answer of        *)
(* getUSyncDevices on.  keys.transaction is an exclusive section: one call *)
(* is inside at a time, and what it sets is stored when it ends.           *)
(***************************************************************************)
Callers == 1..MaxCallers

IdleCaller ==
  [pc |-> "idle", additionalDevices |-> {}, senderKeyMap |-> {},
   senderKeyJids |-> {}, txMap |-> {}]

InitCalls ==
  /\ calls = [c \in Callers |-> IdleCaller]
  /\ txOwner = 0

\* getUSyncDevices(participantsList, ...) has answered the call.
CallDevices(c) ==
  \E additionalDevices \in SUBSET DeviceJids :
    /\ calls[c].pc = "idle"
    /\ additionalDevices # {}
    /\ calls' = [calls EXCEPT ![c] =
                   [IdleCaller EXCEPT !.pc = "memGet",
                                    !.additionalDevices = additionalDevices]]
    /\ UNCHANGED <<senderKeyMemory, txOwner>>

\* keys.get('sender-key-memory', [jid]) has answered, and the loop over
\* the devices has run.
CallMemRead(c) ==
  LET senderKeyJids == calls[c].additionalDevices \ senderKeyMemory
  IN /\ calls[c].pc = "memGet"
     /\ calls' = [calls EXCEPT ![c] =
                    [@ EXCEPT !.pc = IF senderKeyJids # {} THEN "memSet" ELSE "dispatch",
                              !.senderKeyJids = senderKeyJids,
                              !.senderKeyMap = senderKeyMemory \cup senderKeyJids]]
     /\ UNCHANGED <<senderKeyMemory, txOwner>>

\* keys.set({ 'sender-key-memory': { [jid]: senderKeyMap } }), before the
\* dispatch and outside its transaction.
CallMemWrite(c) ==
  /\ calls[c].pc = "memSet"
  /\ senderKeyMemory' = calls[c].senderKeyMap
  /\ calls' = [calls EXCEPT ![c] = [@ EXCEPT !.pc = "dispatch"]]
  /\ UNCHANGED txOwner

\* sendToParticipants: the call enters keys.transaction.
CallTxBegin(c) ==
  /\ calls[c].pc = "dispatch"
  /\ txOwner = 0
  /\ txOwner' = c
  /\ calls' = [calls EXCEPT ![c] = [@ EXCEPT !.pc = "txGet"]]
  /\ UNCHANGED senderKeyMemory

\* The read of sender-key-memory in the transaction.
CallTxRead(c) ==
  /\ calls[c].pc = "txGet"
  /\ calls' = [calls EXCEPT ![c] = [@ EXCEPT !.pc = "send", !.txMap = senderKeyMemory]]
  /\ UNCHANGED <<senderKeyMemory, txOwner>>

\* The stanza, with the SKDM for senderKeyJids, is sent; the map read in the
\* transaction is set and the transaction ends.
CallTxSent(c) ==
  /\ calls[c].pc = "send"
  /\ senderKeyMemory' = calls[c].txMap
  /\ txOwner' = 0
  /\ calls' = [calls EXCEPT ![c] = [@ EXCEPT !.pc = "done"]]

\* A step of the transaction throws: nothing of it is stored.
CallTxFailed(c) ==
  /\ calls[c].pc \in {"txGet", "send"}
  /\ txOwner' = 0
  /\ calls' = [calls EXCEPT ![c] = [@ EXCEPT !.pc = "failed"]]
  /\ UNCHANGED senderKeyMemory

(***************************************************************************)
(* The media type of a message.  A message is the set of its top-level     *)
(* fields, with gifPlayback of its videoMessage and ptt of its             *)
(* audioMessage (false when it has none).                                  *)
(***************************************************************************)
MessageFields == {"imageMessage", "videoMessage", "audioMessage", "conversation"}

Messages ==
  {m \in [fields : SUBSET MessageFields \ {{}}, gifPlayback : BOOLEAN, ptt : BOOLEAN] :
     /\ m.gifPlayback => "videoMessage" \in m.fields
     /\ m.ptt => "audioMessage" \in m.fields}

\* getMediaType(message): the first row that matches, or undefined.  The
\* rows after audioMessage are for fields no message here has.
getMediaType(message) ==
  IF "imageMessage" \in message.fields THEN Some("image")
  ELSE IF "videoMessage" \in message.fields
  THEN (IF message.gifPlayback THEN Some("gif") ELSE Some("video"))
  ELSE IF "audioMessage" \in message.fields
  THEN (IF message.ptt THEN Some("ptt") ELSE Some("audio"))
  ELSE None

\* JSON.stringify(Object.keys(message).sort()): the names of the fields
messageHash(message) == message.fields

InitTypes ==
  /\ mediaTypeCache = [h \in SUBSET MessageFields |-> None]
  /\ stamped = None
  /\ sends = 0

\* sendToParticipants: the mediatype of extraAttrs, through the cache.
MediaTypeValue(message) ==
  IF mediaTypeCache[messageHash(message)] # None
  THEN [value |-> mediaTypeCache[messageHash(message)], cache |-> mediaTypeCache]
  ELSE [value |-> getMediaType(message),
        cache |-> IF getMediaType(message) # None
                  THEN [mediaTypeCache EXCEPT ![messageHash(message)] = getMediaType(message)]
                  ELSE mediaTypeCache]

\* A message is relayed: its dispatch settles the mediatype its enc nodes
\* are stamped with.
StampMediaType ==
  \E message \in Messages :
    /\ sends < MaxSends
    /\ sends' = sends + 1
    /\ stamped' = Some([message |-> message, mediatype |-> MediaTypeValue(message).value])
    /\ mediaTypeCache' = MediaTypeValue(message).cache

\* The hourly timer finds the cache over its limit and clears it.
ClearMediaTypeCache ==
  /\ Cardinality({h \in DOMAIN mediaTypeCache : mediaTypeCache[h] # None})
       > MediaTypeCacheLimit
  /\ mediaTypeCache' = [h \in SUBSET MessageFields |-> None]
  /\ UNCHANGED <<stamped, sends>>

InitAux ==
  /\ InitRetry /\ InitJanitor /\ InitTrip /\ InitReceipts /\ InitCalls
  /\ InitTypes

Init ==
  InitRecord /\ InitMedia /\ InitSessions /\ InitDevices /\ InitRelay /\ InitAux

otherThanRecord == <<mediaVars, sessVars, devVars, relayVars, auxVars>>

otherThanMedia == <<recVars, sessVars, devVars, relayVars, auxVars>>

otherThanSessions == <<recVars, mediaVars, devVars, relayVars, auxVars>>

otherThanDevices == <<recVars, mediaVars, sessVars, relayVars, auxVars>>

otherThanRelay == <<recVars, mediaVars, auxVars>>

otherThanRetry ==
  <<recVars, mediaVars, sessVars, devVars, relayVars, janitorVars, tripVars,
    receiptVars, callVars, typeVars>>

otherThanJanitor ==
  <<recVars, mediaVars, sessVars, devVars, relayVars, retryVars, tripVars,
    receiptVars, callVars, typeVars>>

otherThanReceipts ==
  <<recVars, mediaVars, sessVars, devVars, relayVars, retryVars, janitorVars,
    tripVars, callVars, typeVars>>

otherThanTrip ==
  <<mediaVars, sessVars, devVars, relayVars, retryVars, janitorVars,
    receiptVars, callVars, typeVars>>

otherThanTypes ==
  <<recVars, mediaVars, sessVars, devVars, relayVars, retryVars, janitorVars,
    tripVars, receiptVars, callVars>>

\* The calls side by side share senderKeyMemory.
otherThanCalls ==
  <<recVars, mediaVars, sessVars, devVars, configBlockSize, relay,
    skdmDelivered, skdmDispatched, relays, retryVars, janitorVars, tripVars,
    receiptVars, typeVars>>

NextAdd == AddSenderKeyState /\ UNCHANGED otherThanRecord

SpecAdd == Init /\ [][NextAdd]_vars

NextRecord ==
  \/ AddToRecord /\ UNCHANGED otherThanRecord
  \/ GetSenderKeyState /\ UNCHANGED otherThanRecord
  \/ GetSenderKeyStateById /\ UNCHANGED otherThanRecord
  \/ SetSenderKeyState /\ UNCHANGED otherThanRecord
  \/ Deserialize /\ UNCHANGED otherThanRecord

SpecRecord == Init /\ [][NextRecord]_vars

NextMedia ==
  \/ RefreshMediaConn /\ UNCHANGED otherThanMedia
  \/ MediaConnFetched /\ UNCHANGED otherThanMedia
  \/ MediaConnFailed /\ UNCHANGED otherThanMedia
  \/ Tick /\ UNCHANGED otherThanMedia

SpecMedia == Init /\ [][NextMedia]_vars

NextSessions ==
  \/ \E p \in AssertSlots : AssertSessionsCall(p) /\ UNCHANGED otherThanSessions
  \/ \E p \in AssertSlots : AssertSessionsRead(p) /\ UNCHANGED otherThanSessions
  \/ \E p \in AssertSlots : AssertSessionsFetched(p) /\ UNCHANGED otherThanSessions
  \/ \E p \in AssertSlots : AssertSessionsFailed(p) /\ UNCHANGED otherThanSessions
  \/ \E p \in AssertSlots : AssertSessionsReturn(p) /\ UNCHANGED otherThanSessions
  \/ ClearVerifiedSessions /\ UNCHANGED otherThanSessions
  \/ RemoveSession /\ UNCHANGED otherThanSessions

InitForSessions ==
  /\ InitRecord /\ InitMedia /\ InitSessionsAnyStore /\ InitDevices
  /\ InitRelay /\ InitAux

SpecSessions == InitForSessions /\ [][NextSessions]_vars

NextDevices ==
  \/ \E p \in USyncSlots : GetUSyncDevicesCall(p) /\ UNCHANGED otherThanDevices
  \/ \E p \in USyncSlots : USyncAnswered(p) /\ UNCHANGED otherThanDevices
  \/ \E p \in USyncSlots : USyncNoResult(p) /\ UNCHANGED otherThanDevices
  \/ \E p \in USyncSlots : USyncFailed(p) /\ UNCHANGED otherThanDevices
  \/ \E p \in USyncSlots : USyncReturn(p) /\ UNCHANGED otherThanDevices
  \/ CacheExpire /\ UNCHANGED otherThanDevices

InitForDevices ==
  /\ InitRecord /\ InitMedia /\ InitSessions /\ InitDevicesAnyServer
  /\ InitRelay /\ InitAux

SpecDevices == InitForDevices /\ [][NextDevices]_vars

RelayBlocks == 1..MaxParticipants

NextRelay ==
  \/ RelayMessage /\ UNCHANGED otherThanRelay
  \/ RelayGroupMetadata /\ UNCHANGED otherThanRelay
  \/ RelaySplitRead /\ UNCHANGED otherThanRelay
  \/ RelayDevices /\ UNCHANGED otherThanRelay
  \/ RelayDevicesFailed /\ UNCHANGED otherThanRelay
  \/ RelayMemRead /\ UNCHANGED otherThanRelay
  \/ RelayMemWrite /\ UNCHANGED otherThanRelay
  \/ \E b \in RelayBlocks : BlockResolve(b) /\ UNCHANGED otherThanRelay
  \/ \E b \in RelayBlocks : DispatchRead(b) /\ UNCHANGED otherThanRelay
  \/ \E b \in RelayBlocks : DispatchAssert(b) /\ UNCHANGED otherThanRelay
  \/ \E b \in RelayBlocks : DispatchAssertFailed(b) /\ UNCHANGED otherThanRelay
  \/ \E b \in RelayBlocks : DispatchSent(b) /\ UNCHANGED otherThanRelay
  \/ \E b \in RelayBlocks : DispatchFailed(b) /\ UNCHANGED otherThanRelay
  \/ RelayJoin /\ UNCHANGED otherThanRelay
  \/ RelayFinalWrite /\ UNCHANGED otherThanRelay
  \/ RelayReturn /\ UNCHANGED otherThanRelay
  \/ clearGroupSenderKeyMemory /\ UNCHANGED otherThanRelay

InitForRelay ==
  /\ InitRecord /\ InitMedia /\ InitSessions /\ InitDevicesForRelay
  /\ InitRelayAnyConfig /\ InitAux

SpecRelay == InitForRelay /\ [][NextRelay]_vars

(***************************************************************************)
(* The relay up to its dispatches, with longer participant lists and more  *)
(* block sizes.                                                            *)
(***************************************************************************)
SplitLists == SeqsUpTo({UserJid(u) : u \in Users}, MaxSplitLen)

SplitBlocks == 1..MaxSplitLen

InitRelayForSplit ==
  /\ senderKeyMemory = {}
  /\ configBlockSize \in 0..MaxSplitSize
  /\ relay = IdleRelay
  /\ skdmDelivered = {}
  /\ skdmDispatched = {}
  /\ relays = 0

InitForSplit ==
  /\ InitRecord /\ InitMedia /\ InitSessions /\ InitDevices
  /\ InitRelayForSplit /\ InitAux

NextSplit ==
  \/ RelayMessageWith(SplitLists) /\ UNCHANGED otherThanRelay
  \/ RelayGroupMetadataWith(SplitLists) /\ UNCHANGED otherThanRelay
  \/ RelaySplitRead /\ UNCHANGED otherThanRelay
  \/ RelayDevices /\ UNCHANGED otherThanRelay
  \/ RelayMemRead /\ UNCHANGED otherThanRelay
  \/ RelayMemWrite /\ UNCHANGED otherThanRelay
  \/ \E b \in SplitBlocks : BlockResolve(b) /\ UNCHANGED otherThanRelay

SpecSplit == InitForSplit /\ [][NextSplit]_vars

NextRetry ==
  \/ UpdateMediaMessage /\ UNCHANGED otherThanRetry
  \/ RetrySent /\ UNCHANGED otherThanRetry
  \/ RetrySendFailed /\ UNCHANGED otherThanRetry
  \/ MediaUpdateEvent /\ UNCHANGED otherThanRetry
  \/ RetryTimeout /\ UNCHANGED otherThanRetry
  \/ RetryReturn /\ UNCHANGED otherThanRetry

SpecRetry == Init /\ [][NextRetry]_vars

InitForJanitor ==
  /\ InitRecord /\ InitMedia /\ InitSessions /\ InitDevices /\ InitRelay
  /\ InitRetry /\ InitJanitorAnyStore /\ InitTrip /\ InitReceipts
  /\ InitCalls /\ InitTypes

NextJanitor ==
  \/ CleanupSenderKeys /\ UNCHANGED otherThanJanitor
  \/ JanitorMemoryRead /\ UNCHANGED otherThanJanitor
  \/ JanitorMemoryWrite /\ UNCHANGED otherThanJanitor
  \/ JanitorMemoryFailed /\ UNCHANGED otherThanJanitor
  \/ JanitorKeyRead /\ UNCHANGED otherThanJanitor
  \/ JanitorKeyWrite /\ UNCHANGED otherThanJanitor
  \/ JanitorKeyFailed /\ UNCHANGED otherThanJanitor
  \/ ClearGroupSenderKeyMemory /\ UNCHANGED otherThanJanitor
  \/ clearGroupSenderKey /\ UNCHANGED otherThanJanitor
  \/ JanitorReturn /\ UNCHANGED otherThanJanitor

SpecJanitor == InitForJanitor /\ [][NextJanitor]_vars

\* Adds and sets on a record, until it is serialized and read back.
NextTrip ==
  \/ reloaded = None /\ AddToRecord /\ UNCHANGED otherThanRecord
  \/ reloaded = None /\ SetSenderKeyState /\ UNCHANGED otherThanRecord
  \/ RoundTrip /\ UNCHANGED otherThanTrip

SpecTrip == Init /\ [][NextTrip]_vars

NextReceipts ==
  \/ SendReceipts /\ UNCHANGED otherThanReceipts
  \/ SendReceipt /\ UNCHANGED otherThanReceipts
  \/ ReceiptsSent /\ UNCHANGED otherThanReceipts
  \/ ReceiptsFailed /\ UNCHANGED otherThanReceipts
  \/ ReceiptsReturn /\ UNCHANGED otherThanReceipts

SpecReceipts == Init /\ [][NextReceipts]_vars

NextCalls ==
  \/ \E c \in Callers : CallDevices(c) /\ UNCHANGED otherThanCalls
  \/ \E c \in Callers : CallMemRead(c) /\ UNCHANGED otherThanCalls
  \/ \E c \in Callers : CallMemWrite(c) /\ UNCHANGED otherThanCalls
  \/ \E c \in Callers : CallTxBegin(c) /\ UNCHANGED otherThanCalls
  \/ \E c \in Callers : CallTxRead(c) /\ UNCHANGED otherThanCalls
  \/ \E c \in Callers : CallTxSent(c) /\ UNCHANGED otherThanCalls
  \/ \E c \in Callers : CallTxFailed(c) /\ UNCHANGED otherThanCalls

SpecCalls == Init /\ [][NextCalls]_vars

NextTypes ==
  \/ StampMediaType /\ UNCHANGED otherThanTypes
  \/ ClearMediaTypeCache /\ UNCHANGED otherThanTypes

SpecTypes == Init /\ [][NextTypes]_vars

\* The last n elements of s (all of s when it is shorter).
LastN(s, n) ==
  IF Len(s) <= n THEN s ELSE SubSeq(s, Len(s) - n + 1, Len(s))

\* C1: from an empty record, after n addSenderKeyState calls the record
\* holds exactly the last min(n, 5) added states in insertion order, so it
\* never holds more than 5 and an add on a full record evicts only the head.
C1_LastFiveAdded ==
  /\ Len(senderKeyStates) <= 5
  /\ Len(senderKeyStates) = (IF Len(added) < 5 THEN Len(added) ELSE 5)
  /\ senderKeyStates = LastN(added, 5)

C1_Witness ==
  /\ Len(added) = 7
  /\ Len(senderKeyStates) = 5
  /\ senderKeyStates[1] = added[3]
  /\ added[1] # added[3]

\* The validity predicate as the specification states it.
ValidPerSpec(st) ==
  /\ st.senderKeyId > 0
  /\ st.senderChainKey # None
  /\ st.senderChainKey[1].iteration >= 0
  /\ st.senderSigningKey.public # <<>>

ValidIndexes(states) == {i \in 1..Len(states) : ValidPerSpec(states[i])}

\* C2: getSenderKeyState() without a key id returns the valid state nearest
\* the tail and leaves the record unchanged when the record holds a valid
\* state; otherwise it returns absence and leaves the record empty.  What
\* it returns always passes the validity predicate.
C2_GetNewestValid ==
  [][recOp' = "get" =>
       /\ IF ValidIndexes(senderKeyStates) # {}
          THEN /\ recResult' = Some(senderKeyStates[SetMax(ValidIndexes(senderKeyStates))])
               /\ senderKeyStates' = senderKeyStates
          ELSE /\ recResult' = None
               /\ senderKeyStates' = <<>>
       /\ recResult' # None => ValidPerSpec(recResult'[1])]_vars

\* a get that had to scan backward past an invalid tail
C2_Witness ==
  /\ recOp = "get"
  /\ recResult # None
  /\ Len(senderKeyStates) >= 3
  /\ ~ValidPerSpec(senderKeyStates[Len(senderKeyStates)])
  /\ ~ValidPerSpec(senderKeyStates[Len(senderKeyStates) - 1])
  /\ recResult[1] = senderKeyStates[Len(senderKeyStates) - 2]

PendingFetches == {f \in 1..Len(fetches) : fetches[f].status = "pending"}

\* C7: at most one media_conn query is outstanding, and a refreshMediaConn
\* call made while one is in flight, forced or not, starts no query and
\* returns the promise of the query in flight.
C7_SingleFlight ==
  /\ Cardinality(PendingFetches) <= 1
  /\ mcCall # None /\ mcCall[1].joined # None =>
       /\ ~mcCall[1].started
       /\ mcCall[1].ret = mcCall[1].joined[1]
  /\ pendingMediaQueries # None => PendingFetches = {pendingMediaQueries[1]}
  /\ PendingFetches # {} => pendingMediaQueries # None

\* a forced call joined the query in flight
C7_Witness ==
  /\ mcCall # None
  /\ mcCall[1].forceGet
  /\ mcCall[1].joined # None
  /\ mcCall[1].ret \in PendingFetches
  /\ Len(fetches) >= 2

\* C8: once assertSessions(J, false) has completed without error, and the
\* verified set was not cleared since that call began, another
\* assertSessions(J, false) returns false at once: it reads no session
\* and sends no prekey query.
C8_SecondAssertIsNoop ==
  \A p \in AssertSlots :
    asserts[p].covered => asserts[p].pc = "done" /\ asserts[p].result = FALSE

\* the second call, made after the session of one of its jids was removed
C8_Witness ==
  \E p \in AssertSlots :
    /\ asserts[p].covered
    /\ asserts[p].pc = "done"
    /\ Cardinality(asserts[p].args) = 2
    /\ asserts[p].args \ sessions # {}

\* C9 (as claimed): when assertSessions(jids, false) completes without
\* error every jid of jids has a session in the store.
C9_SessionsExistOnCompletion ==
  [][\A p \in AssertSlots :
       (asserts[p].pc # "done" /\ asserts'[p].pc = "done" /\ ~asserts'[p].force)
         => asserts'[p].args \subseteq sessions']_vars

\* The users a call asks for, and those with no entry in the cache.
RequestedUsers(jidList) == {j.user : j \in Range(jidList)} \ {0}

MissingUsers(jidList) == {u \in RequestedUsers(jidList) : userDevicesCache[u] = None}

\* C10: a getUSyncDevices call with useCache sends no USync query iff
\* every user it asks for has an entry in the device cache; otherwise it
\* sends one query, for exactly the users without an entry.  No call ever
\* sends a second query.
C10_QueryIffCacheMiss ==
  /\ [][\A p \in USyncSlots :
         (usync[p].pc = "idle" /\ usync'[p].pc # "idle" /\ usync'[p].useCache) =>
           LET missing == MissingUsers(usync'[p].jids)
           IN /\ (usync'[p].queries = <<>>) <=> (missing = {})
              /\ missing = {} => usync'[p].pc = "done"
              /\ missing # {} =>
                   /\ usync'[p].pc = "query"
                   /\ Len(usync'[p].queries) = 1
                   /\ Range(usync'[p].queries[1]) = missing]_vars
  /\ [](\A p \in USyncSlots : Len(usync[p].queries) <= 1)
  /\ [][\A p \in USyncSlots :
         usync[p].pc # "idle" /\ usync'[p].pc # "idle" =>
           usync'[p].queries = usync[p].queries]_vars

\* a call with one user in the cache and one not: the query names the other
C10_Witness ==
  \E p \in USyncSlots :
    /\ usync[p].useCache
    /\ usync[p].pc = "query"
    /\ Cardinality(RequestedUsers(usync[p].jids)) = 2
    /\ Len(usync[p].deviceResults) > 0
    /\ Len(usync[p].queries) = 1
    /\ Cardinality(Range(usync[p].queries[1])) = 1

(***************************************************************************)
(* Claims on relayMessage                                                  *)
(***************************************************************************)
\* The positions of the events of a kind in the events of the relay.
EventsOfKind(kinds) ==
  {i \in 1..Len(relay.events) : relay.events[i].kind \in kinds}

StanzaEvents == EventsOfKind({"stanza"})

WriteEvents == EventsOfKind({"set", "session"})

BlocksWithDevices ==
  {b \in DOMAIN relay.blocks : relay.blocks[b].devices # <<>>}

\* C3 as stated: every relayMessage invocation that returns has emitted
\* exactly one message stanza, every key-store write of the invocation was
\* issued inside the transaction, and the stanza came after all of them.
C3_ExactlyOneStanzaAfterAllWrites ==
  relay.pc = "ok" =>
    /\ Cardinality(StanzaEvents) = 1
    /\ \A w \in WriteEvents :
         relay.events[w].tx /\ (\A e \in StanzaEvents : w < e)

\* C3 (amended): every dispatch that has devices and returns has emitted
\* exactly one stanza, after all the key-store writes of that dispatch,
\* which are issued inside its transaction; a dispatch without devices or
\* one that throws emits none.  A relay that returns without block split
\* has emitted one stanza (none when no device was resolved), after all
\* its key-store writes; a block-split relay that returns has emitted one
\* stanza for each block with devices.
C3_OneStanzaPerDispatch ==
  /\ \A b \in DOMAIN relay.blocks :
       LET mine(S) == {i \in S : relay.events[i].blk = b}
       IN /\ relay.blocks[b].pc = "sent" =>
               /\ Cardinality(mine(StanzaEvents)) = 1
               /\ \A w \in mine(WriteEvents) :
                    relay.events[w].tx /\ (\A e \in mine(StanzaEvents) : w < e)
          /\ relay.blocks[b].pc \in {"empty", "failed"} => mine(StanzaEvents) = {}
  /\ (relay.pc = "ok" /\ ~relay.split) =>
       /\ Cardinality(StanzaEvents) = Cardinality(BlocksWithDevices)
       /\ Cardinality(StanzaEvents) <= 1
       /\ \A w \in WriteEvents : \A e \in StanzaEvents : w < e
  /\ (relay.pc = "ok" /\ relay.split) =>
       Cardinality(StanzaEvents) = Cardinality(BlocksWithDevices)

\* A block-split relay to a group has returned after two stanzas and a last
\* write of the sender-key memory outside any transaction.
C3_Witness ==
  /\ relay.pc = "ok"
  /\ relay.split
  /\ Cardinality(StanzaEvents) = 2
  /\ relay.events[Len(relay.events)] = Event("set", FALSE, 0)

\* C4 as stated: when a relay to the group has failed, the sender-key
\* memory of the group is what it was before the call.
C4_FailedRelayLeavesMemory ==
  (relay.pc = "failed" /\ relay.dest = "group") =>
    senderKeyMemory = relay.memBefore

\* The recipient devices of the relay.
Recipients ==
  UNION {Range(relay.blocks[b].devices) : b \in DOMAIN relay.blocks}

SkdmSentNow ==
  IF relay.dest = "group" THEN SkdmOf(relay) ELSE {}

C11_NoQueryAfterQuery ==
  [][\A p \in USyncSlots :
       (/\ usync[p].pc = "idle"
        /\ usync'[p].pc # "idle"
        /\ usync'[p].useCache
        /\ RequestedUsers(usync'[p].jids) # {}
        /\ RequestedUsers(usync'[p].jids) \subseteq queriedUsers)
       => usync'[p].queries = <<>>]_vars

(***************************************************************************)
(* Claims on relayMessage, continued                                       *)
(***************************************************************************)
\* The sendToParticipants calls the relay has made.
Dispatches ==
  {b \in DOMAIN relay.blocks : relay.blocks[b].pc \notin {"new", "resolve"}}

\* The least k with k * size >= n
CeilDiv(n, size) == CHOOSE k \in 0..n : k * size >= n /\ (k - 1) * size < n

\* C12: once a group or status relay (without participant override) of N
\* participants and block size B has made all its dispatches, they are 1
\* when N <= B and ceil(N/B) when N > B, and then the blocks are
\* consecutive slices of 1 to B participants that make up the list.
C12_DispatchCount ==
  LET n == Len(relay.list)
      size == participantBlockSize
  IN (/\ relay.dest # "user"
      /\ ~relay.override
      /\ relay.pc = "dispatch"
      /\ Dispatches = DOMAIN relay.blocks)
     => /\ n <= size => Cardinality(Dispatches) = 1 /\ ~relay.split
        /\ n > size =>
             /\ relay.split
             /\ Cardinality(Dispatches) = CeilDiv(n, size)
             /\ Concat([b \in DOMAIN relay.blocks |-> relay.blocks[b].users])
                  = relay.list
             /\ \A b \in DOMAIN relay.blocks :
                  Len(relay.blocks[b].users) \in 1..size

\* A relay of three participants with block size 2 has made its two
\* dispatches, for two participants and for one.
C12_Witness ==
  /\ relay.dest = "group"
  /\ participantBlockSize = 2
  /\ Len(relay.list) = 3
  /\ relay.pc = "dispatch"
  /\ Dispatches = {1, 2}
  /\ Len(relay.blocks[1].users) = 2
  /\ Len(relay.blocks[2].users) = 1

SetEvents == EventsOfKind({"set"})

SplitGroupRelay == relay.split /\ relay.dest = "group"

\* The SKDM targets of all the blocks: what the blocks add to the map.
BlockAdditions == UNION {relay.blocks[b].sk : b \in DOMAIN relay.blocks}

\* C13 as stated: a block-split relay to the group that has returned has
\* written the sender-key memory once, after every dispatch, and nothing
\* else has written it during the call.
C13_OneMemoryWrite ==
  (SplitGroupRelay /\ relay.pc = "ok") =>
    /\ Cardinality(SetEvents) = 1
    /\ \A w \in SetEvents : \A e \in StanzaEvents : e < w

\* C13 (amended): in a block-split relay to the group the memory with the
\* additions of all the blocks is written once outside the dispatches,
\* after every dispatch has returned; every other write of the memory
\* during the call is made by a dispatch inside its transaction, of the
\* map it read there, and leaves the stored value as it was before the
\* call.
C13_OneMergeWrite ==
  SplitGroupRelay =>
    LET outside == {w \in SetEvents : ~relay.events[w].tx}
    IN /\ \A w \in SetEvents \ outside : relay.events[w].blk \in DOMAIN relay.blocks
       /\ relay.pc # "ok" => outside = {} /\ senderKeyMemory = relay.memBefore
       /\ relay.pc = "ok" =>
            /\ Cardinality(outside) = 1
            /\ \A w \in outside : \A e \in 1..Len(relay.events) : e <= w
            /\ \A b \in DOMAIN relay.blocks : relay.blocks[b].pc \in {"sent", "empty"}
            /\ senderKeyMemory = relay.memBefore \cup BlockAdditions

\* A block-split relay has returned: each of its two dispatches wrote the
\* memory inside its transaction and the merge write added their targets.
C13_Witness ==
  /\ SplitGroupRelay
  /\ relay.pc = "ok"
  /\ Cardinality(SetEvents) = 3
  /\ \A b \in DOMAIN relay.blocks : relay.blocks[b].sk # {}
  /\ senderKeyMemory # relay.memBefore

\* Every dispatch of the relay was made without devices.
NoRecipient ==
  /\ relay.blocks # <<>>
  /\ \A b \in DOMAIN relay.blocks : relay.blocks[b].pc = "empty"

\* C14 as stated: a relay without recipient devices that has returned has
\* emitted no stanza, opened no transaction and written nothing to the
\* key store.
C14_NoRecipientNoWrite ==
  (NoRecipient /\ relay.pc = "ok") =>
    /\ relay.events = <<>>
    /\ \A b \in DOMAIN relay.blocks : ~relay.blocks[b].tx

\* C14 (amended): a dispatch without devices returns at once: it emits no
\* stanza, opens no transaction and writes nothing.  A relay all of whose
\* dispatches are without devices does not fail, emits no stanza and
\* leaves the sender-key memory as it was; it writes nothing to the key
\* store, except that a block-split relay to the group still writes, after
\* its blocks, the map it read.
C14_EmptyDispatchSendsNothing ==
  /\ \A b \in DOMAIN relay.blocks :
       (/\ relay.blocks[b].devices = <<>>
        /\ relay.blocks[b].pc \notin {"new", "resolve", "failed"}) =>
         /\ relay.blocks[b].pc = "empty"
         /\ ~relay.blocks[b].tx
         /\ relay.blocks[b].txSet = None
         /\ relay.blocks[b].stanza = None
         /\ \A e \in 1..Len(relay.events) : relay.events[e].blk # b
  /\ NoRecipient =>
       /\ relay.pc \in {"dispatch", "finalWrite", "ok"}
       /\ StanzaEvents = {}
       /\ senderKeyMemory = relay.memBefore
       /\ relay.events # <<>> =>
            /\ SplitGroupRelay
            /\ relay.pc = "ok"
            /\ relay.events = <<Event("set", FALSE, 0)>>

\* A block-split relay to the group has returned, neither of its two blocks
\* having resolved a device.
C14_Witness ==
  /\ NoRecipient
  /\ SplitGroupRelay
  /\ relay.pc = "ok"
  /\ Len(relay.blocks) = 2
  /\ relay.events = <<Event("set", FALSE, 0)>>

(***************************************************************************)
(* Claims on updateMediaMessage                                            *)
(***************************************************************************)
\* The first entry for the key id of the call in the event that ended the
\* wait, if any.
MatchingEntry ==
  IF retry.arrived = None THEN None
  ELSE LET update == retry.arrived[1]
           at == {i \in 1..Len(update) : update[i].id = retry.id}
       IN IF at = {} THEN None
          ELSE Some(update[CHOOSE i \in at : \A j \in at : i <= j])

MatchedSuccess == MatchingEntry # None /\ MatchingEntry[1].kind = "SUCCESS"

RetryOver == retry.pc \in {"done", "failed"} /\ ~retry.waiting /\ retry.sendNode # "pending"

\* C15 as stated: the call resolves, with directPath set, url regenerated
\* and one messages.update emitted, exactly when an event with an entry for
\* the key id came that carries no error and decrypts to SUCCESS; when the
\* entry carries an error or another result the call fails with that
\* error, emits no messages.update and leaves directPath and url alone.
C15_ResolvesIffSuccessEvent ==
  RetryOver =>
    /\ retry.pc = "done" <=> MatchedSuccess
    /\ (MatchingEntry # None /\ ~MatchedSuccess) =>
         /\ retry.error = HandlerError(MatchingEntry[1])
         /\ retry.updates = 0
         /\ Some(mediaMessage) = retry.before

\* C15 (amended): the call resolves, with directPath set, url regenerated
\* and one messages.update emitted, exactly when sendNode has sent the
\* request and, during the wait, an event came with an entry for the key id
\* that carries no error and decrypts to SUCCESS.  When that entry carries
\* an error or does not decrypt to SUCCESS, the call fails (with that error
\* if sendNode did not throw), emits no messages.update and leaves
\* directPath and url alone.  Events without an entry for the key id leave
\* the wait going on, and a message without key.id fails before any stanza.
C15_ResolvesIffSentAndSuccess ==
  /\ RetryOver =>
       /\ retry.pc = "done" <=> (retry.sendNode = "sent" /\ MatchedSuccess)
       /\ retry.pc = "done" =>
            /\ retry.updates = 1
            /\ mediaMessage.directPath = MatchingEntry[1].path
            /\ mediaMessage.url = getUrlFromDirectPath(mediaMessage.directPath)
       /\ retry.pc = "failed" => retry.updates = 0 /\ retry.error # None
       /\ (MatchingEntry # None /\ ~MatchedSuccess) =>
            /\ retry.pc = "failed"
            /\ retry.sendNode = "sent" => retry.error = HandlerError(MatchingEntry[1])
            /\ Some(mediaMessage) = retry.before
  /\ retry.arrived # None => MatchingEntry # None
  /\ (retry.pc = "waiting" /\ retry.arrived = None) =>
       retry.waiting /\ Some(mediaMessage) = retry.before
  /\ (retry.pc # "idle" /\ retry.id = 0) =>
       retry.pc = "failed" /\ retry.stanzas = 0 /\ retry.updates = 0

\* The call has resolved after an event for another key id was ignored and
\* an event with a SUCCESS entry for its key id, second in its event, came.
C15_Witness ==
  /\ retry.pc = "done"
  /\ retry.others > 0
  /\ MatchedSuccess
  /\ retry.arrived[1][1].id # retry.id
  /\ mediaMessage.directPath = 2

(***************************************************************************)
(* C16: cleanupSenderKeys, clearGroupSenderKeyMemory and                   *)
(* clearGroupSenderKey never raise: after a read or a write of the key     *)
(* store has failed the call goes on to its normal completion, and an      *)
(* aggressive cleanup whose memory pass failed still makes its key pass.   *)
(***************************************************************************)
C16_JanitorNeverRaises ==
  /\ janitor.pc \in {"idle", "memGet", "memSet", "keyGet", "keySet", "done"}
  /\ janitor.failed # {} =>
       /\ janitor.pc \in {"keyGet", "keySet", "done"}
       /\ janitor.op = "cleanup" /\ janitor.aggressive => janitor.keyPass
  /\ janitor.pc = "done" /\ janitor.op = "cleanup" /\ janitor.aggressive =>
       janitor.keyPass

C16_Witness ==
  /\ janitor.pc = "done" /\ janitor.op = "cleanup"
  /\ janitor.failed = {"memory", "key"}
  /\ janitor.keyPass

(***************************************************************************)
(* C17: an aggressive cleanupSenderKeys that follows another one, with the *)
(* same maxStatesPerGroup and no failure in either, leaves both categories *)
(* as the first one left them.                                             *)
(***************************************************************************)
C17_CleanupIdempotent ==
  \A i \in 1..(Len(cleanups) - 1) :
    cleanups[i].maxStatesPerGroup = cleanups[i + 1].maxStatesPerGroup =>
      /\ cleanups[i + 1].memory = cleanups[i].memory
      /\ cleanups[i + 1].keys = cleanups[i].keys

C17_MemoryPassIdempotent ==
  \A i \in 1..(Len(cleanups) - 1) : cleanups[i + 1].memory = cleanups[i].memory

NotFromMe(keys) == {i \in DOMAIN keys : ~keys[i].fromMe}

ReceiptPairs(keys) ==
  {<<keys[i].remoteJid, keys[i].participant>> : i \in NotFromMe(keys)}

\* The ids of the keys of a pair, in the order of the keys.
IdsOfPair(keys, pair) ==
  LET mine == SelectSeq(keys, LAMBDA key :
                /\ ~key.fromMe
                /\ <<key.remoteJid, key.participant>> = pair)
  IN [i \in DOMAIN mine |-> mine[i].id]

CarriedIds(node) ==
  <<node.id>> \o (IF node.content = None THEN <<>> ELSE node.content[1])

Carriers(id) ==
  {<<i, j>> \in (DOMAIN receiptNodes) \X (1..(MaxKeys + 1)) :
     /\ j <= Len(CarriedIds(receiptNodes[i].node))
     /\ CarriedIds(receiptNodes[i].node)[j] = id}

C19_OneReceiptPerPair ==
  /\ receipts.op = "sendReceipts" =>
       LET keys == receipts.keys
       IN /\ Len(receiptNodes) = Cardinality(ReceiptPairs(keys))
          /\ \A pair \in ReceiptPairs(keys) :
               \E i \in DOMAIN receiptNodes :
                 /\ <<receiptNodes[i].jid, receiptNodes[i].participant>> = pair
                 /\ CarriedIds(receiptNodes[i].node) = IdsOfPair(keys, pair)
                 /\ receiptNodes[i].node.content = None <=>
                      Len(IdsOfPair(keys, pair)) = 1
          /\ \A i \in DOMAIN keys :
               Cardinality(Carriers(keys[i].id)) = IF keys[i].fromMe THEN 0 ELSE 1
          /\ keys = <<>> => receiptNodes = <<>>
  /\ receipts.op = "sendReceipt" /\ receipts.messageIds = <<>> =>
       receiptNodes = <<>>

C19_Witness ==
  /\ receipts.op = "sendReceipts"
  /\ Len(receipts.keys) >= 3
  /\ \E i \in DOMAIN receiptNodes : receiptNodes[i].node.content # None
  /\ \E i \in DOMAIN receipts.keys : receipts.keys[i].fromMe

(***************************************************************************)
(* C20: when the relayMessage calls to the group, made side by side, have  *)
(* all completed without error, sender-key-memory holds every device any   *)
(* of them sent the SKDM to.                                               *)
(***************************************************************************)
C20_NoLostUpdate ==
  (\A c \in Callers : calls[c].pc = "done") =>
    \A c \in Callers : calls[c].senderKeyJids \subseteq senderKeyMemory

(***************************************************************************)
(* Claims on the SKDM targets of a relay                                   *)
(***************************************************************************)
\* The sender-key memory stored for the destination when the relay read
\* it: the one of the group, or the one of the status jid, which no relay
\* ever fills.
StoredMemory == IF relay.dest = "group" THEN relay.memBefore ELSE {}

\* The relay, to the group or to the status list, has resolved the devices
\* of all its dispatches and chosen their SKDM targets.
TargetsChosen ==
  /\ relay.dest \in {"group", "status"}
  /\ ~relay.override
  /\ relay.pc \in {"dispatch", "finalWrite", "ok"}
  /\ relay.blocks # <<>>
  /\ \A b \in DOMAIN relay.blocks : relay.blocks[b].pc \notin {"new", "resolve", "failed"}

\* C21 as stated: single dispatch or block split, to the group or to the
\* status list, the SKDM targets of a relay are the resolved devices that
\* are absent from the stored sender-key memory.
C21_SkdmTargetsAreAbsentees ==
  TargetsChosen => BlockAdditions = Recipients \ StoredMemory

(***************************************************************************)
(* C22 as stated: a stanza of a relay carries the device identity exactly  *)
(* when one of the participant nodes built for that stanza was encrypted   *)
(* as pkmsg, in a block-split relay too.                                   *)
(***************************************************************************)
C22_DeviceIdentityIffPkmsg ==
  \A b \in DOMAIN relay.blocks :
    relay.blocks[b].stanza # None =>
      (relay.blocks[b].stanza[1].deviceIdentity <=> relay.blocks[b].stanza[1].pkmsg)

(***************************************************************************)
(* C23 as stated: whatever was relayed before, the mediatype stamped for a *)
(* message is what getMediaType gives for that message, and there is none  *)
(* when getMediaType gives none.                                           *)
(***************************************************************************)
C23_MediaTypeIsTableValue ==
  stamped # None => stamped[1].mediatype = getMediaType(stamped[1].message)

(***************************************************************************)
(* C24 as stated, for a call answered from the cache alone: the server     *)
(* lists being what they were all along, getUSyncDevices with useCache     *)
(* returns the (user, device) pairs that the same call without the cache   *)
(* gets from the server, whatever calls were made before and whatever      *)
(* their ignoreZeroDevices was.                                            *)
(***************************************************************************)
\* What the call of slot p returns when it does not use the cache and the
\* server answers.
UncachedDevices(p) ==
  LET c == usync[p]
      scan == ScanJids(Dedupe(c.jids), FALSE)
  IN Range(extractDeviceJids(Dedupe(scan.toFetch), c.ignoreZeroDevices))

C24_CachedEqualsUncached ==
  \A p \in USyncSlots :
    (/\ usync[p].pc = "done"
     /\ usync[p].useCache
     /\ usync[p].jids # <<>>
     /\ usync[p].queries = <<>>) =>
      Range(usync[p].deviceResults) = UncachedDevices(p)

(***************************************************************************)
(* C25 as stated: when the memory pass of cleanupSenderKeys has completed  *)
(* without a store error, sender-key-memory holds no entry that is not an  *)
(* object, no group with an empty map and no device mapped to anything but *)
(* true, and the groups that were clean before are as they were.           *)
(***************************************************************************)
\* The memory pass of the cleanup in progress is over and met no error.
MemoryPassDone ==
  /\ janitor.op = "cleanup"
  /\ janitor.pc \in {"keyGet", "keySet", "done"}
  /\ "memory" \notin janitor.failed

CleanEntry(memory) ==
  /\ memory.tag = "object"
  /\ \E k \in MemoryKeys : memory.map[k] = "true"
  /\ \A k \in MemoryKeys : memory.map[k] # "false"

C25_MemoryPassCleans ==
  MemoryPassDone =>
    \A g \in Groups :
      /\ memoryStore[g].tag \in {"absent", "null"} \/ CleanEntry(memoryStore[g])
      /\ CleanEntry(janitor.memoryBefore[1][g]) =>
           memoryStore[g] = janitor.memoryBefore[1][g]

(***************************************************************************)
(* C26 as stated: when an aggressive cleanupSenderKeys has completed       *)
(* without a store error, each sender-key entry that remains is an array,  *)
(* not empty, of at most maxStatesPerGroup states: the tail of the valid   *)
(* states the entry had; an entry that did not decode, was not an array,   *)
(* was empty or had no valid state is gone.  (A state counts as valid when *)
(* it passes the test of the key pass.)                                    *)
(***************************************************************************)
AggressiveCleanupDone ==
  /\ janitor.op = "cleanup"
  /\ janitor.aggressive
  /\ janitor.pc = "done"
  /\ janitor.failed = {}

ValidStatesOf(keyData) == SelectSeq(keyData.states, LAMBDA state : state.ok)

C26_KeyPassLeavesValidTail ==
  AggressiveCleanupDone =>
    \A k \in KeyNames :
      LET was == janitor.keysBefore[1][k]
          is == senderKeyStore[k]
      IN IF was.isArray /\ ValidStatesOf(was) # <<>>
         THEN /\ is.isArray
              /\ is.states = Slice(ValidStatesOf(was), janitor.maxStatesPerGroup)
         ELSE is.form \in {"absent", "falsy"}

(***************************************************************************)
(* C27 as stated: a record made by deserialize from a stored array of any  *)
(* length, and then by adds, sets and gets, never holds more than          *)
(* MAX_STATES states, and holds one state, the installed one, after        *)
(* setSenderKeyState.                                                      *)
(***************************************************************************)
C27_AtMostFiveStates ==
  /\ Len(senderKeyStates) <= MAX_STATES
  /\ recOp = "set" =>
       /\ Len(senderKeyStates) = 1
       /\ \E a \in SetArgs :
            senderKeyStates[1] = NewSenderKeyState(a[1], a[2], a[3], Some(a[4]), <<>>)

(***************************************************************************)
(* C28: getSenderKeyState(keyId) returns the first state of the ring with  *)
(* that key id when this state passes the validity predicate, and absence  *)
(* when no state has the key id or the first that has it is invalid; the   *)
(* record is left as it was in every case.                                 *)
(***************************************************************************)
ExpectedById(states, k) ==
  LET matches == {i \in 1..Len(states) : states[i].senderKeyId = k}
  IN IF matches = {} THEN None
     ELSE IF ValidPerSpec(states[SetMin(matches)])
     THEN Some(states[SetMin(matches)])
     ELSE None

C28_GetByIdFirstMatch ==
  [][\A k \in KeyIds :
       (/\ recOp' = "getById"
        /\ recResult' = getSenderKeyState(Some(k)).result
        /\ senderKeyStates' = getSenderKeyState(Some(k)).states) =>
         /\ recResult' = ExpectedById(senderKeyStates, k)
         /\ senderKeyStates' = senderKeyStates]_vars

\* a lookup has returned the first of two different states with its key id,
\* and the record holds a lone invalid state with another key id
C28_Witness ==
  /\ recOp = "getById"
  /\ recResult # None
  /\ \E i, j \in 1..Len(senderKeyStates) :
       /\ i < j
       /\ senderKeyStates[i] = recResult[1]
       /\ senderKeyStates[j].senderKeyId = recResult[1].senderKeyId
       /\ senderKeyStates[j] # recResult[1]
  /\ \E i \in 1..Len(senderKeyStates) : senderKeyStates[i].senderKeyId = 0

\* The fulfilled promises among fs, and the latest of them.
Fulfilled(fs) == {f \in 1..Len(fs) : fs[f].status = "fulfilled"}

LastFulfilled(fs) == CHOOSE f \in Fulfilled(fs) : \A g \in Fulfilled(fs) : g <= f

\* The last refreshMediaConn call found no query in flight.
CallNotCoalesced == mcCall # None /\ mcCall[1].joined = None

C30_CompletionClearsMarker ==
  /\ pendingMediaQueries # None =>
       fetches[pendingMediaQueries[1]].status = "pending"
  /\ mcCall # None =>
       LET c == mcCall[1]
       IN /\ c.joined # None => c.before[c.joined[1]].status = "pending"
          /\ (c.forceGet /\ \A f \in 1..Len(c.before) : c.before[f].status # "pending")
               => c.started /\ c.ret = Len(c.before) + 1
  /\ \A f \in 1..Len(fetches) :
       fetches[f].status # "pending" => pendingMediaQueries # Some(f)

\* a forced call made after a rejected fetch and after a fulfilled one
\* started the third query
C30_Witness ==
  /\ mcCall # None
  /\ mcCall[1].forceGet
  /\ mcCall[1].started
  /\ Len(mcCall[1].before) = 2
  /\ mcCall[1].before[1].status = "rejected"
  /\ mcCall[1].before[2].status = "fulfilled"

\* C31: a refreshMediaConn call that neither starts a fetch nor joins one in
\* flight returns a lease that a successful fetch produced: the promise it
\* returns is a fulfilled one, never the promise of a fetch that failed.
C31_ReturnedLeaseIsFulfilled ==
  (CallNotCoalesced /\ ~mcCall[1].started) =>
    /\ mcCall[1].ret \in Fulfilled(mcCall[1].before)
    /\ mcCall[1].ret = LastFulfilled(mcCall[1].before)

\* C32: in every reachable state the verified-session set holds no more
\* jids than its limit: assertSessions never leaves it over the limit.
C32_VerifiedSetBounded ==
  Cardinality(verifiedSessionsCache) <= VerifiedCacheLimit

====
